---- MODULE Spec2Model ----
(***************************************************************************)
(* The time-based storage backends of time_based_storage/core:             *)
(*   base.py    TimeBasedStorage        a dict  timestamp -> value          *)
(*   rbtree.py  TimeBasedStorageRBTree  a SortedDict timestamp -> value     *)
(*   heap.py    TimeBasedStorageHeap    a heapq list of (timestamp, value)  *)
(* Stores are driven in lockstep by the same calls, the way                 *)
(* tests/test_storage.py drives storage and heap_storage.  Timestamps are   *)
(* integers (microseconds), values are integers.                            *)
(*   Spec      the dict and the SortedDict store under add,                 *)
(*             add_unique_timestamp, remove and clear                       *)
(*   SpecHeap  all three stores under add, remove and clear (heap.py has    *)
(*             no add_unique_timestamp)                                     *)
(*   SpecRange the same calls, only the stores and the call made last kept  *)
(* The wrappers of time_based_storage/concurrent, one object shared by      *)
(* NumThreads threads, each call a step that takes the lock and a step      *)
(* that runs the body and gives it up:                                      *)
(*   SpecWait           add, add_unique_timestamp, remove, clear,           *)
(*                      wait_for_data and notify_data_available             *)
(*   SpecWrapper        those and every reading method, get_earliest and    *)
(*                      get_latest of the heap wrapper among them           *)
(*   SpecConcurrentAdd  the threads of test_concurrent_add                  *)
(*   SpecConsumer       consumer and producer of test_wait_for_data on the  *)
(*                      heap wrapper; FairSpecConsumer with both scheduled  *)
(*                      again and again                                     *)
(*   SpecSize           the writes, size and is_empty, each write made on a *)
(*                      dict store as well                                  *)
(*   SpecOrder          add, add_unique_timestamp, get_timestamps, get_all  *)
(*                      and size: a run without remove or clear             *)
(*   SpecCallers        every method, called by NumCallers threads          *)
(*   SpecCalls          the methods that take the lock; FairSpecCalls with  *)
(*                      the threads scheduled fairly                        *)
(* get_duration reads the clock through the process's local zone: a zone is *)
(* the UTC offsets before and after one change of the clocks.               *)
(* The event stores heap_storage.py and time_based_storage_heap.py (a heap  *)
(* of events and a sorted projection built on demand) and storage.py (a     *)
(* list of events kept sorted):                                             *)
(*   SpecEvents  the three under create_event, delete_event and the queries *)
(*   SpecSorted  the storage.py store alone, with events of one timestamp   *)
(*               that differ in their data                                  *)
(*   SpecHeaps   the events list and the heap.py list under the same        *)
(*               additions and removals                                     *)
(***************************************************************************)
EXTENDS Integers, Sequences, FiniteSets, TLC

\* ---- bounds of the model ----
MaxTs == 3          \* add/add_unique_timestamp are called with timestamps 1..MaxTs
MaxVal == 2         \* values are 1..MaxVal
MaxOffset == 2      \* max_offset_microseconds is drawn from 1..MaxOffset
MaxSize == 3        \* no store grows beyond MaxSize records
NumThreads == 3     \* threads sharing one wrapper
MaxWrapped == 1     \* a wrapped store is not grown beyond MaxWrapped records
AddsPerThread == 2  \* count of add_values(start_idx, count) in test_concurrent_add
DataCount == 3      \* data_count of test_wait_for_data
MaxShift == 1       \* the clocks of the process's zone change by at most MaxShift
MaxEvents == 3      \* an event store is not grown beyond MaxEvents events
MaxEventTs == 2     \* the events of the lazily sorted stores are stamped 1..MaxEventTs
NumCallers == 2     \* threads calling the wrapper in the runs of a few callers

\* Python's None, as returned by dict.get / get_value_at for a missing key.
None == 0

Timestamps == 1..MaxTs
\* the durations get_duration and get_events_by_duration are tried with
Durations == 0..MaxTs
Values == 1..MaxVal
\* the max_offset_microseconds given to add_unique_timestamp (with 0 no key but the
\* requested one can be drawn)
MaxOffsets == 1..MaxOffset
\* every key a store can hold: a requested timestamp plus a random offset
Keys == 1..(MaxTs + MaxOffset)
\* the range query bounds tried by the properties
Bounds == 0..(MaxTs + MaxOffset + 1)

VARIABLES
    storage,      \* base.py   self._storage : dict, a function from its keys to their values
    rb_storage,   \* rbtree.py self._storage : SortedDict, as its items() in key order
    heap,         \* heap.py   self._heap    : list of (timestamp, value)
    last,         \* the call made last: [op, ts, value, max_offset]
    ret,          \* what that call did on each backend: [base, tree, heap]
    records,      \* per backend, the records the calls' results say are stored
    history,      \* what kind of call sequence led here: [kind, added]
    dropped,      \* the timestamps stored when clear was called, if clear is the call made last
    wrapper,      \* which concurrent/ wrapper the threads share: "rbtree", "heap", or "none"
    lock,         \* self._lock : threading.RLock, [owner, count]
    waiters,      \* self._condition._waiters : the threads Condition.wait has enqueued
    pc,           \* per thread, where it stands in its call: [op, at, timeout, idx]
    returned,     \* what the step just taken returned or raised to its caller: [op, value, raised]
    done,         \* per thread, how many add calls of its loop have returned
    consumer,     \* where consumer() of test_wait_for_data stands in its loop
    received_data,\* received_data of test_wait_for_data
    event,        \* event of test_wait_for_data is set
    heap_storage, \* a heap_storage.py TimeBasedStorageHeap: [events, heap, sorted]
    tbs_heap,     \* a time_based_storage_heap.py TimeBasedStorageHeap: [events, sorted_cache, cache_valid]
    called,       \* the call made last on the event stores: [op, raised, mutated]
    entered,      \* the records of the add calls that succeeded, in the order their `with` bodies ran
    sl_events, \* a storage.py TimeBasedStorage: self.events, the list kept sorted
    sl_called  \* the call made last on that store when it is driven alone

\* what the test threads keep for themselves
programVars == <<done, consumer, received_data, event>>

\* the event stores and the call made last on them
eventVars == <<heap_storage, tbs_heap, called, sl_events, sl_called>>

threadVars == <<wrapper, lock, waiters, pc, returned, programVars, eventVars, entered>>

vars == <<storage, rb_storage, heap, last, ret, records, history, dropped,
          wrapper, lock, waiters, pc, returned, done, consumer, received_data, event,
          heap_storage, tbs_heap, called, entered, sl_events, sl_called>>

\* ---- Python list / tuple helpers ----

\* [ts for ts, _ in items]
KeyList(items) == [i \in 1..Len(items) |-> items[i][1]]

\* [value for _, value in items]
ValueList(items) == [i \in 1..Len(items) |-> items[i][2]]

\* list.pop(idx), idx counted from 0
ListPop(l, idx) == SubSeq(l, 1, idx) \o SubSeq(l, idx + 2, Len(l))

\* l[lo:hi], indices counted from 0, for 0 <= lo and 0 <= hi
ListSlice(l, lo, hi) ==
    LET h == IF hi > Len(l) THEN Len(l) ELSE hi
    IN  IF lo >= h THEN << >> ELSE SubSeq(l, lo + 1, h)

\* (ts1, v1) < (ts2, v2): Python compares tuples lexicographically
TupleLess(a, b) == a[1] < b[1] \/ (a[1] = b[1] /\ a[2] < b[2])

\* ---- bisect ----

RECURSIVE BisectLeftLoop(_, _, _, _)
BisectLeftLoop(a, x, lo, hi) ==
    IF lo < hi
    THEN LET mid == (lo + hi) \div 2
         IN  IF a[mid + 1] < x
             THEN BisectLeftLoop(a, x, mid + 1, hi)
             ELSE BisectLeftLoop(a, x, lo, mid)
    ELSE lo

\* bisect.bisect_left(a, x)
bisect_left(a, x) == BisectLeftLoop(a, x, 0, Len(a))

RECURSIVE BisectRightLoop(_, _, _, _)
BisectRightLoop(a, x, lo, hi) ==
    IF lo < hi
    THEN LET mid == (lo + hi) \div 2
         IN  IF x < a[mid + 1]
             THEN BisectRightLoop(a, x, lo, mid)
             ELSE BisectRightLoop(a, x, mid + 1, hi)
    ELSE lo

\* bisect.bisect_right(a, x)
bisect_right(a, x) == BisectRightLoop(a, x, 0, Len(a))

\* ---- heapq ----

RECURSIVE SiftdownLoop(_, _, _, _)
SiftdownLoop(h, startpos, pos, newitem) ==
    IF pos > startpos
    THEN LET parentpos == (pos - 1) \div 2
             parent == h[parentpos + 1]
         IN  IF TupleLess(newitem, parent)
             THEN SiftdownLoop([h EXCEPT ![pos + 1] = parent], startpos, parentpos, newitem)
             ELSE [h EXCEPT ![pos + 1] = newitem]
    ELSE [h EXCEPT ![pos + 1] = newitem]

\* heapq._siftdown(heap, startpos, pos)
Siftdown(h, startpos, pos) == SiftdownLoop(h, startpos, pos, h[pos + 1])

\* heapq.heappush(heap, item)
heappush(h, item) == Siftdown(Append(h, item), 0, Len(h))

RECURSIVE SiftupLoop(_, _, _, _)
SiftupLoop(h, startpos, pos, newitem) ==
    LET endpos == Len(h)
        leftpos == 2 * pos + 1
        rightpos == leftpos + 1
        childpos == IF rightpos < endpos /\ ~TupleLess(h[leftpos + 1], h[rightpos + 1])
                    THEN rightpos ELSE leftpos
    IN  IF leftpos < endpos
        THEN SiftupLoop([h EXCEPT ![pos + 1] = h[childpos + 1]], startpos, childpos, newitem)
        ELSE Siftdown([h EXCEPT ![pos + 1] = newitem], startpos, pos)

\* heapq._siftup(heap, pos)
Siftup(h, pos) == SiftupLoop(h, pos, pos, h[pos + 1])

RECURSIVE HeapifyLoop(_, _)
HeapifyLoop(h, i) == IF i < 0 THEN h ELSE HeapifyLoop(Siftup(h, i), i - 1)

\* a slip: no heapify, the list stays as pop left it
heapify_skipped(h) == h

\* heapq.heapify(x): for i in reversed(range(n // 2)): _siftup(x, i)
heapify(h) == HeapifyLoop(h, (Len(h) \div 2) - 1)

\* ---- dict (base.py) ----
\* A dict is the function from its keys to their values.  The order in which a
\* dict iterates is left out: the lists base.py builds from it are bags.

\* {}
EmptyDict == [k \in {} |-> None]

\* key in d
DictContains(d, k) == k \in DOMAIN d

\* d.get(k)
DictGet(d, k) == IF k \in DOMAIN d THEN d[k] ELSE None

\* d[k] = v
DictSetItem(d, k, v) == [x \in (DOMAIN d) \cup {k} |-> IF x = k THEN v ELSE d[x]]

\* del d[k]
DictDelItem(d, k) == [x \in (DOMAIN d) \ {k} |-> d[x]]

\* the bag of the values d holds under the keys in S (a list in no particular order)
ValueBag(d, S) ==
    [v \in {d[k] : k \in S} |-> Cardinality({k \in S : d[k] = v})]

\* the bag of the elements of a list
ListBag(l) ==
    [v \in {l[i] : i \in 1..Len(l)} |-> Cardinality({i \in 1..Len(l) : l[i] = v})]

\* ---- SortedDict (rbtree.py) ----
\* A SortedDict is the list of its (key, value) items in ascending key order.

\* SortedDict()
EmptySortedDict == << >>

\* key in d
SortedDictContains(d, k) == \E i \in 1..Len(d) : d[i][1] = k

\* d[k], d.get(k)
SortedDictGet(d, k) ==
    IF SortedDictContains(d, k)
    THEN d[CHOOSE i \in 1..Len(d) : d[i][1] = k][2]
    ELSE None

\* a slip: a plain dict where a SortedDict is meant, a new key goes last
PlainDictSetItem(d, k, v) ==
    IF SortedDictContains(d, k)
    THEN [i \in 1..Len(d) |-> IF d[i][1] = k THEN <<k, v>> ELSE d[i]]
    ELSE Append(d, <<k, v>>)

\* d[k] = v: a new key is inserted at its place in key order
SortedDictSetItem(d, k, v) ==
    IF SortedDictContains(d, k)
    THEN [i \in 1..Len(d) |-> IF d[i][1] = k THEN <<k, v>> ELSE d[i]]
    ELSE LET idx == bisect_right(KeyList(d), k)
         IN  SubSeq(d, 1, idx) \o << <<k, v>> >> \o SubSeq(d, idx + 1, Len(d))

\* del d[k]
SortedDictDelItem(d, k) == SelectSeq(d, LAMBDA e : e[1] # k)

\* d.irange(minimum, maximum): the keys in [minimum, maximum], ascending
irange(d, minimum, maximum) ==
    LET keys == KeyList(d)
    IN  ListSlice(keys, bisect_left(keys, minimum), bisect_right(keys, maximum))

\* a slip: an offset one past the maximum
randint_past_end(a, b) == a..(b + 1)

\* random.randint(a, b): the values it can return
randint(a, b) == a..b

\* ---- threading.RLock ----

Threads == 1..NumThreads

NoThread == 0

Unlocked == [owner |-> NoThread, count |-> 0]

\* a slip: threading.Lock in place of threading.RLock, the owner cannot take it again
LockAvailable(l, th) == l.owner = NoThread

\* acquire() does not block: the lock is free or the caller owns it already
RLockAvailable(l, th) == l.owner \in {NoThread, th}

RLockAcquire(l, th) == [owner |-> th, count |-> l.count + 1]

RLockRelease(l) == IF l.count = 1 THEN Unlocked ELSE [l EXCEPT !.count = @ - 1]

\* ---- a thread's position ----
\* at "idle":      in no call
\* at "locked":    inside `with self._lock:` of op, the body not run yet
\* at "blocked":   inside Condition.wait, the lock given up, on waiter.acquire
\* at "notified":  waiter.acquire returned True, self._acquire_restore to come
\* at "timed_out": waiter.acquire returned False, self._acquire_restore to come
\* at "checked":   in get_earliest / get_latest, self._heap seen non-empty
\* at "indexed":   in get_latest, latest_idx computed
\* timeout: the timeout given to wait_for_data, "None" or "finite"
\* idx: latest_idx of get_latest

Idle == [op |-> "idle", at |-> "idle", timeout |-> "None", idx |-> 0]

Timeouts == {"None", "finite"}

NoReturn == [op |-> "none", value |-> None, raised |-> "no"]

\* ---- threading.Condition ----

\* a slip: notify() in place of notify_all(), one waiter is woken
notify_one(p, w) ==
    [th \in Threads |->
        IF w # {} /\ th = CHOOSE x \in w : \A y \in w : x <= y
        THEN (IF p[th].at = "blocked" THEN [p[th] EXCEPT !.at = "notified"] ELSE p[th])
        ELSE p[th]]

\* notify_all(): the waiter lock of every thread in _waiters is released; a thread
\* still on waiter.acquire gets it, one whose acquire has timed out already does not
notify_all(p, w) ==
    [th \in Threads |->
        IF th \in w /\ p[th].at = "blocked" THEN [p[th] EXCEPT !.at = "notified"] ELSE p[th]]

\* a slip: wait_for_data returns True whatever Condition.wait returned
gotit_always(p) == TRUE

\* what Condition.wait, and with it wait_for_data, returns to a thread at p:
\* whether waiter.acquire got the waiter lock
gotit(p) == p.at = "notified"

\* ---- results of a call on one backend ----
\* raised: the call raised ValueError; ts: the timestamp add_unique_timestamp
\* returned; found: what remove returned
NoResult == [raised |-> FALSE, ts |-> None, found |-> FALSE]

\* ---- base.py TimeBasedStorage ----

\* a slip: no duplicate check, the new value replaces the stored one
base_add_overwrites(d, timestamp, value) ==
    [store |-> DictSetItem(d, timestamp, value), raised |-> FALSE]

base_add(d, timestamp, value) ==
    IF DictContains(d, timestamp)
    THEN [store |-> d, raised |-> TRUE]
    ELSE [store |-> DictSetItem(d, timestamp, value), raised |-> FALSE]

\* a slip: the offset is applied whether or not the timestamp is stored
base_add_unique_timestamp_always_offsets(d, timestamp, value, offset) ==
    LET unique_timestamp == timestamp + offset
    IN  [store |-> DictSetItem(d, unique_timestamp, value), ts |-> unique_timestamp]

base_add_unique_timestamp(d, timestamp, value, offset) ==
    IF ~DictContains(d, timestamp)
    THEN [store |-> DictSetItem(d, timestamp, value), ts |-> timestamp]
    ELSE LET unique_timestamp == timestamp + offset
         IN  [store |-> DictSetItem(d, unique_timestamp, value), ts |-> unique_timestamp]

\* a slip: the end of the range is left out (ts < end_time)
base_get_range_open_end(d, start_time, end_time) ==
    ValueBag(d, {ts \in DOMAIN d : start_time <= ts /\ ts < end_time})

base_get_range(d, start_time, end_time) ==
    ValueBag(d, {ts \in DOMAIN d : start_time <= ts /\ ts <= end_time})

base_get_value_at(d, timestamp) == DictGet(d, timestamp)

\* a slip: reports the key found but leaves it in the dict
base_remove_keeps(d, timestamp) ==
    [store |-> d, found |-> DictContains(d, timestamp)]

base_remove(d, timestamp) ==
    IF DictContains(d, timestamp)
    THEN [store |-> DictDelItem(d, timestamp), found |-> TRUE]
    ELSE [store |-> d, found |-> FALSE]

base_size(d) == Cardinality(DOMAIN d)

base_is_empty(d) == Cardinality(DOMAIN d) = 0

\* list(self._storage.values()), as a bag
base_get_all(d) == ValueBag(d, DOMAIN d)

\* list(self._storage.keys()), as a set
base_get_timestamps(d) == DOMAIN d

\* a slip: clear drops the values and keeps the keys
base_clear_keeps_keys(d) == [k \in DOMAIN d |-> None]

base_clear(d) == EmptyDict

\* ---- rbtree.py TimeBasedStorageRBTree ----

rbtree_add(d, timestamp, value) ==
    IF SortedDictContains(d, timestamp)
    THEN [store |-> d, raised |-> TRUE]
    ELSE [store |-> SortedDictSetItem(d, timestamp, value), raised |-> FALSE]

rbtree_add_unique_timestamp(d, timestamp, value, offset) ==
    IF ~SortedDictContains(d, timestamp)
    THEN [store |-> SortedDictSetItem(d, timestamp, value), ts |-> timestamp]
    ELSE LET unique_timestamp == timestamp + offset
         IN  [store |-> SortedDictSetItem(d, unique_timestamp, value), ts |-> unique_timestamp]

rbtree_get_range(d, start_time, end_time) ==
    LET in_range == irange(d, start_time, end_time)
    IN  [i \in 1..Len(in_range) |-> SortedDictGet(d, in_range[i])]

rbtree_get_value_at(d, timestamp) == SortedDictGet(d, timestamp)

\* a slip: reports True whether or not there was a key to delete
rbtree_remove_always_true(d, timestamp) ==
    [store |-> SortedDictDelItem(d, timestamp), found |-> TRUE]

rbtree_remove(d, timestamp) ==
    IF SortedDictContains(d, timestamp)
    THEN [store |-> SortedDictDelItem(d, timestamp), found |-> TRUE]
    ELSE [store |-> d, found |-> FALSE]

rbtree_size(d) == Len(d)

rbtree_is_empty(d) == Len(d) = 0

\* list(self._storage.values())
rbtree_get_all(d) == ValueList(d)

\* list(self._storage.keys())
rbtree_get_timestamps(d) == KeyList(d)

rbtree_clear(d) == EmptySortedDict

\* ---- heap.py TimeBasedStorageHeap ----

heap_add(h, timestamp, value) ==
    IF Len(h) > 0 /\ h[1][1] = timestamp
    THEN [store |-> h, raised |-> TRUE]
    ELSE [store |-> heappush(h, <<timestamp, value>>), raised |-> FALSE]

\* a slip: the bounds are put in order before the searches
heap_get_range_orders_bounds(h, start_time, end_time) ==
    LET lo == IF start_time <= end_time THEN start_time ELSE end_time
        hi == IF start_time <= end_time THEN end_time ELSE start_time
        start_idx == bisect_left(KeyList(h), lo)
        end_idx == bisect_right(KeyList(h), hi)
    IN  ValueList(ListSlice(h, start_idx, end_idx))

heap_get_range(h, start_time, end_time) ==
    LET start_idx == bisect_left(KeyList(h), start_time)
        end_idx == bisect_right(KeyList(h), end_time)
    IN  ValueList(ListSlice(h, start_idx, end_idx))

heap_get_value_at(h, timestamp) ==
    LET idx == bisect_left(KeyList(h), timestamp)
    IN  IF idx < Len(h) /\ h[idx + 1][1] = timestamp
        THEN h[idx + 1][2]
        ELSE None

heap_remove(h, timestamp) ==
    LET idx == bisect_left(KeyList(h), timestamp)
    IN  IF idx < Len(h) /\ h[idx + 1][1] = timestamp
        THEN [store |-> heapify(ListPop(h, idx)), found |-> TRUE]
        ELSE [store |-> h, found |-> FALSE]

heap_size(h) == Len(h)

\* a slip: <= 1 where == 0 is meant
heap_is_empty_upto_one(h) == Len(h) <= 1

heap_is_empty(h) == Len(h) = 0

heap_get_all(h) == ValueList(h)

heap_get_timestamps(h) == KeyList(h)

heap_clear(h) == << >>

\* ---- event.py Event, and what heapq, sorted and list.remove do with it ----
\* An Event is <<timestamp, data>>.  Event.__lt__ compares timestamps only,
\* Event.__eq__ compares timestamp and data.

Event(timestamp, data) == <<timestamp, data>>

\* Event.__lt__
EventLess(a, b) == a[1] < b[1]

RECURSIVE EventSiftdownLoop(_, _, _, _)
EventSiftdownLoop(h, startpos, pos, newitem) ==
    IF pos > startpos
    THEN LET parentpos == (pos - 1) \div 2
             parent == h[parentpos + 1]
         IN  IF EventLess(newitem, parent)
             THEN EventSiftdownLoop([h EXCEPT ![pos + 1] = parent], startpos, parentpos, newitem)
             ELSE [h EXCEPT ![pos + 1] = newitem]
    ELSE [h EXCEPT ![pos + 1] = newitem]

\* heapq._siftdown(heap, startpos, pos) on a list of events
EventSiftdown(h, startpos, pos) == EventSiftdownLoop(h, startpos, pos, h[pos + 1])

\* heapq.heappush(heap, event)
event_heappush(h, item) == EventSiftdown(Append(h, item), 0, Len(h))

RECURSIVE EventSiftupLoop(_, _, _, _)
EventSiftupLoop(h, startpos, pos, newitem) ==
    LET endpos == Len(h)
        leftpos == 2 * pos + 1
        rightpos == leftpos + 1
        childpos == IF rightpos < endpos /\ ~EventLess(h[leftpos + 1], h[rightpos + 1])
                    THEN rightpos ELSE leftpos
    IN  IF leftpos < endpos
        THEN EventSiftupLoop([h EXCEPT ![pos + 1] = h[childpos + 1]], startpos, childpos, newitem)
        ELSE EventSiftdown([h EXCEPT ![pos + 1] = newitem], startpos, pos)

\* heapq._siftup(heap, pos) on a list of events
EventSiftup(h, pos) == EventSiftupLoop(h, pos, pos, h[pos + 1])

RECURSIVE EventHeapifyLoop(_, _)
EventHeapifyLoop(h, i) == IF i < 0 THEN h ELSE EventHeapifyLoop(EventSiftup(h, i), i - 1)

\* a slip: no heapify after list.remove
event_heapify_skipped(h) == h

\* heapq.heapify(self.events)
event_heapify(h) == EventHeapifyLoop(h, (Len(h) \div 2) - 1)

\* sorted(events) / sorted(events, key=attrgetter('timestamp')): ascending
\* timestamps, events of one timestamp in the order they have in the list
RECURSIVE sorted_by_timestamp(_)
sorted_by_timestamp(l) ==
    IF Len(l) = 0
    THEN << >>
    ELSE LET rest == sorted_by_timestamp(SubSeq(l, 1, Len(l) - 1))
             x == l[Len(l)]
             idx == bisect_right(KeyList(rest), x[1])
         IN  SubSeq(rest, 1, idx) \o <<x>> \o SubSeq(rest, idx + 1, Len(rest))

\* x in l
ListContains(l, x) == \E i \in 1..Len(l) : l[i] = x

\* l.remove(x) for x in l: the first entry equal to x goes
ListRemove(l, x) ==
    LET first == CHOOSE i \in 1..Len(l) : l[i] = x /\ \A j \in 1..(i - 1) : l[j] # x
    IN  ListPop(l, first - 1)

\* ---- storage.py TimeBasedStorage ----
\* the store is its list self.events

sl_init == << >>

\* a slip: the event is appended, not inserted at its place
sl_create_event_appends(l, timestamp, data) == Append(l, Event(timestamp, data))

\* bisect compares events by Event.__lt__, that is by their timestamps
sl_create_event(l, timestamp, data) ==
    LET idx == bisect_left(KeyList(l), timestamp)
    IN  SubSeq(l, 1, idx) \o <<Event(timestamp, data)>> \o SubSeq(l, idx + 1, Len(l))

sl_add_event(l, evt) == sl_create_event(l, evt[1], evt[2])

\* self.events[idx] == event is Event.__eq__: same timestamp and same data
sl_delete_event(l, evt) ==
    LET idx == bisect_left(KeyList(l), evt[1])
    IN  IF idx < Len(l) /\ l[idx + 1] = evt
        THEN [store |-> ListPop(l, idx), raised |-> "no"]
        ELSE [store |-> l, raised |-> "ValueError"]

\* a slip: the bounds are not compared before the search
sl_get_events_in_range_unchecked(l, start_time, end_time) ==
    LET start_idx == bisect_left(KeyList(l), start_time)
        end_idx == bisect_right(KeyList(l), end_time)
    IN  [store |-> l, value |-> ListSlice(l, start_idx, end_idx), raised |-> "no"]

sl_get_events_in_range(l, start_time, end_time) ==
    IF start_time > end_time
    THEN [store |-> l, value |-> << >>, raised |-> "ValueError"]
    ELSE LET start_idx == bisect_left(KeyList(l), start_time)
             end_idx == bisect_right(KeyList(l), end_time)
         IN  [store |-> l, value |-> ListSlice(l, start_idx, end_idx), raised |-> "no"]

sl_get_latest_event(l) == IF Len(l) > 0 THEN l[Len(l)] ELSE None

\* a slip: the window is measured from the earliest stored event
sl_get_events_by_duration_from_earliest(l, duration) ==
    IF Len(l) = 0
    THEN << >>
    ELSE LET cutoff_time == l[1][1] - duration
             start_idx == bisect_left(KeyList(l), cutoff_time)
         IN  ListSlice(l, start_idx, Len(l))

sl_get_events_by_duration(l, duration) ==
    IF Len(l) = 0
    THEN << >>
    ELSE LET cutoff_time == l[Len(l)][1] - duration
             start_idx == bisect_left(KeyList(l), cutoff_time)
         IN  ListSlice(l, start_idx, Len(l))

\* min(iterable): the first of the events no other is less than
ListMin(l) ==
    l[CHOOSE i \in 1..Len(l) :
        /\ \A j \in 1..Len(l) : ~EventLess(l[j], l[i])
        /\ \A j \in 1..(i - 1) : EventLess(l[i], l[j])]

\* ---- heap_storage.py TimeBasedStorageHeap ----
\* [events, heap, sorted]: self.events, self._heap, self._sorted

hs_init == [events |-> << >>, heap |-> << >>, sorted |-> TRUE]

hs_create_event(s, timestamp, data) ==
    [s EXCEPT !.heap = event_heappush(@, Event(timestamp, data)), !.sorted = FALSE]

\* _ensure_sorted()
hs_ensure_sorted(s) ==
    IF ~s.sorted
    THEN [s EXCEPT !.events = sorted_by_timestamp(s.heap), !.sorted = TRUE]
    ELSE s

\* a slip: the first entry of the list is taken for the earliest
hs_get_earliest_event_takes_root(s) == IF Len(s.heap) > 0 THEN s.heap[1] ELSE None

\* heapq.nsmallest(1, self._heap)[0] if self._heap else None
hs_get_earliest_event(s) == IF Len(s.heap) > 0 THEN ListMin(s.heap) ELSE None

hs_delete_event(s, evt) ==
    IF ListContains(s.heap, evt)
    THEN [store |-> [s EXCEPT !.heap = ListRemove(@, evt), !.sorted = FALSE], raised |-> "no"]
    ELSE [store |-> s, raised |-> "ValueError"]

\* bisect compares events by Event.__lt__, that is by their timestamps
hs_get_events_in_range(s, start_time, end_time) ==
    IF start_time > end_time
    THEN [store |-> s, value |-> << >>, raised |-> "ValueError"]
    ELSE LET s2 == hs_ensure_sorted(s)
             start_idx == bisect_left(KeyList(s2.events), start_time)
             end_idx == bisect_right(KeyList(s2.events), end_time)
         IN  [store |-> s2, value |-> ListSlice(s2.events, start_idx, end_idx), raised |-> "no"]

hs_get_latest_event(s) ==
    LET s2 == hs_ensure_sorted(s)
    IN  [store |-> s2,
         value |-> IF Len(s2.events) > 0 THEN s2.events[Len(s2.events)] ELSE None,
         raised |-> "no"]

hs_get_events_by_duration(s, duration) ==
    IF Len(s.heap) = 0
    THEN [store |-> s, value |-> << >>, raised |-> "no"]
    ELSE LET s2 == hs_ensure_sorted(s)
             cutoff_time == s2.events[Len(s2.events)][1] - duration
             start_idx == bisect_left(KeyList(s2.events), cutoff_time)
         IN  [store |-> s2, value |-> ListSlice(s2.events, start_idx, Len(s2.events)), raised |-> "no"]

\* ---- time_based_storage_heap.py TimeBasedStorageHeap ----
\* [events, sorted_cache, cache_valid]: self.events, self._sorted_cache,
\* self._cache_valid.  The Optional[List[Event]] _sorted_cache is << >> when it
\* is None and <<l>> when it is the list l.

NoCache == << >>

tbsh_init == [events |-> << >>, sorted_cache |-> NoCache, cache_valid |-> TRUE]

tbsh_create_event(s, timestamp, data) ==
    [s EXCEPT !.events = event_heappush(@, Event(timestamp, data)), !.cache_valid = FALSE]

\* a slip: delete_event leaves _cache_valid as it is
tbsh_delete_event_keeps_cache(s, evt) ==
    IF ListContains(s.events, evt)
    THEN [store |-> [s EXCEPT !.events = event_heapify(ListRemove(@, evt))], raised |-> "no"]
    ELSE [store |-> s, raised |-> "ValueError"]

tbsh_delete_event(s, evt) ==
    IF ListContains(s.events, evt)
    THEN [store |-> [s EXCEPT !.events = event_heapify(ListRemove(@, evt)),
                              !.cache_valid = FALSE],
          raised |-> "no"]
    ELSE [store |-> s, raised |-> "ValueError"]

\* heapq.nsmallest(1, self.events)[0] if self.events else None
tbsh_get_earliest_event(s) == IF Len(s.events) > 0 THEN ListMin(s.events) ELSE None

\* _get_sorted_events(): the store afterwards, its sorted_cache is what is returned
tbsh_get_sorted_events(s) ==
    IF ~s.cache_valid
    THEN [s EXCEPT !.sorted_cache = <<sorted_by_timestamp(s.events)>>, !.cache_valid = TRUE]
    ELSE s

\* bisect_left(None, ...) raises TypeError
tbsh_get_events_in_range(s, start_time, end_time) ==
    IF start_time > end_time
    THEN [store |-> s, value |-> << >>, raised |-> "ValueError"]
    ELSE LET s2 == tbsh_get_sorted_events(s)
         IN  IF s2.sorted_cache = NoCache
             THEN [store |-> s2, value |-> << >>, raised |-> "TypeError"]
             ELSE LET sorted_events == s2.sorted_cache[1]
                      start_idx == bisect_left(KeyList(sorted_events), start_time)
                      end_idx == bisect_right(KeyList(sorted_events), end_time)
                  IN  [store |-> s2,
                       value |-> ListSlice(sorted_events, start_idx, end_idx),
                       raised |-> "no"]

\* None[-1] raises TypeError, [][-1] raises IndexError
tbsh_get_latest_event(s) ==
    IF Len(s.events) = 0
    THEN [store |-> s, value |-> None, raised |-> "no"]
    ELSE LET s2 == tbsh_get_sorted_events(s)
         IN  IF s2.sorted_cache = NoCache
             THEN [store |-> s2, value |-> None, raised |-> "TypeError"]
             ELSE IF Len(s2.sorted_cache[1]) = 0
             THEN [store |-> s2, value |-> None, raised |-> "IndexError"]
             ELSE [store |-> s2,
                   value |-> s2.sorted_cache[1][Len(s2.sorted_cache[1])],
                   raised |-> "no"]

tbsh_get_events_by_duration(s, duration) ==
    IF Len(s.events) = 0
    THEN [store |-> s, value |-> << >>, raised |-> "no"]
    ELSE LET s2 == tbsh_get_sorted_events(s)
         IN  IF s2.sorted_cache = NoCache
             THEN [store |-> s2, value |-> << >>, raised |-> "TypeError"]
             ELSE IF Len(s2.sorted_cache[1]) = 0
             THEN [store |-> s2, value |-> << >>, raised |-> "IndexError"]
             ELSE LET sorted_events == s2.sorted_cache[1]
                      cutoff_time == sorted_events[Len(sorted_events)][1] - duration
                      start_idx == bisect_left(KeyList(sorted_events), cutoff_time)
                  IN  [store |-> s2,
                       value |-> ListSlice(sorted_events, start_idx, Len(sorted_events)),
                       raised |-> "no"]

\* ---- the call made last on the event stores ----
\* raised: what the call raised on [heap_storage.py, time_based_storage_heap.py];
\* mutated: some create_event or delete_event has succeeded so far

NoEventCall == [op |-> "init", raised |-> <<"no", "no">>, mutated |-> FALSE]

\* ---- the call made last on the storage.py store ----
\* evt: the event it was called with, raised: what it raised

NoEvent == << >>

NoSortedCall == [op |-> "init", evt |-> NoEvent, raised |-> "no"]

\* ---- the records the results of the calls account for ----

NoRecords == [k \in Bounds |-> None]

\* ---- the kind of call sequence made so far ----
\* kind "adds":          only add calls, no two of them with the same timestamp
\* kind "adds_removes":  only add and remove calls, no two adds with the same timestamp
\* kind "any":           every other sequence
\* added: the timestamps given to add so far (no longer kept once kind is "any")

NoHistory == [kind |-> "adds", added |-> {}]

AnyHistory == [kind |-> "any", added |-> {}]

HistoryAfterAdd(h, t) ==
    IF h.kind = "any" \/ t \in h.added
    THEN AnyHistory
    ELSE [h EXCEPT !.added = @ \cup {t}]

HistoryAfterRemove(h) ==
    IF h.kind = "any" THEN AnyHistory ELSE [h EXCEPT !.kind = "adds_removes"]

\* ---- state machine ----

NoCall == [op |-> "init", ts |-> None, value |-> None, max_offset |-> 0]

Init ==
    /\ storage = EmptyDict
    /\ rb_storage = EmptySortedDict
    /\ heap = << >>
    /\ last = NoCall
    /\ ret = [base |-> NoResult, tree |-> NoResult, heap |-> NoResult]
    /\ records = [base |-> NoRecords, tree |-> NoRecords, heap |-> NoRecords]
    /\ history = NoHistory
    /\ dropped = {}
    /\ wrapper = "none"
    /\ lock = Unlocked
    /\ waiters = {}
    /\ pc = [th \in Threads |-> Idle]
    /\ returned = NoReturn
    /\ done = [th \in Threads |-> 0]
    /\ consumer = "wait"
    /\ received_data = {}
    /\ event = FALSE
    /\ heap_storage = hs_init
    /\ tbs_heap = tbsh_init
    /\ called = NoEventCall
    /\ entered = << >>
    /\ sl_events = sl_init
    /\ sl_called = NoSortedCall

HasRoom == base_size(storage) < MaxSize /\ rbtree_size(rb_storage) < MaxSize

\* storage.add(t, v); rb_storage.add(t, v)
Add(t, v) ==
    /\ HasRoom
    /\ LET b == base_add(storage, t, v)
           r == rbtree_add(rb_storage, t, v)
       IN  /\ storage' = b.store
           /\ rb_storage' = r.store
           /\ ret' = [base |-> [NoResult EXCEPT !.raised = b.raised],
                      tree |-> [NoResult EXCEPT !.raised = r.raised],
                      heap |-> NoResult]
           /\ records' =
                [records EXCEPT
                   !.base = IF b.raised THEN @ ELSE [@ EXCEPT ![t] = v],
                   !.tree = IF r.raised THEN @ ELSE [@ EXCEPT ![t] = v]]
    /\ last' = [NoCall EXCEPT !.op = "add", !.ts = t, !.value = v]
    /\ history' = HistoryAfterAdd(history, t)
    /\ dropped' = {}
    /\ heap' = heap
    /\ UNCHANGED threadVars

\* storage.add_unique_timestamp(t, v, m); rb_storage.add_unique_timestamp(t, v, m).
\* The offset is whatever random.randint(0, m) returns.  The two stores are
\* separate objects and nothing below relates one to the other, so the harness
\* hands both calls the same draw: each store on its own still meets every
\* sequence of calls and draws.
AddUniqueTimestamp(t, v, m) ==
    /\ HasRoom
    /\ \E offset \in randint(0, m) :
         LET b == base_add_unique_timestamp(storage, t, v, offset)
             r == rbtree_add_unique_timestamp(rb_storage, t, v, offset)
         IN  /\ storage' = b.store
             /\ rb_storage' = r.store
             /\ ret' = [base |-> [NoResult EXCEPT !.ts = b.ts],
                        tree |-> [NoResult EXCEPT !.ts = r.ts],
                        heap |-> NoResult]
             /\ records' = [records EXCEPT !.base[b.ts] = v, !.tree[r.ts] = v]
    /\ last' = [op |-> "add_unique_timestamp", ts |-> t, value |-> v, max_offset |-> m]
    /\ history' = AnyHistory
    /\ dropped' = {}
    /\ heap' = heap
    /\ UNCHANGED threadVars

\* storage.remove(t); rb_storage.remove(t)
Remove(t) ==
    /\ LET b == base_remove(storage, t)
           r == rbtree_remove(rb_storage, t)
       IN  /\ storage' = b.store
           /\ rb_storage' = r.store
           /\ ret' = [base |-> [NoResult EXCEPT !.found = b.found],
                      tree |-> [NoResult EXCEPT !.found = r.found],
                      heap |-> NoResult]
           /\ records' =
                [records EXCEPT
                   !.base = IF b.found THEN [@ EXCEPT ![t] = None] ELSE @,
                   !.tree = IF r.found THEN [@ EXCEPT ![t] = None] ELSE @]
    /\ last' = [NoCall EXCEPT !.op = "remove", !.ts = t]
    /\ history' = HistoryAfterRemove(history)
    /\ dropped' = {}
    /\ heap' = heap
    /\ UNCHANGED threadVars

\* storage.clear(); rb_storage.clear()
Clear ==
    /\ storage' = base_clear(storage)
    /\ rb_storage' = rbtree_clear(rb_storage)
    /\ ret' = [base |-> NoResult, tree |-> NoResult, heap |-> NoResult]
    /\ records' = [base |-> NoRecords, tree |-> NoRecords, heap |-> NoRecords]
    /\ last' = [NoCall EXCEPT !.op = "clear"]
    /\ history' = AnyHistory
    /\ dropped' = base_get_timestamps(storage)
    /\ heap' = heap
    /\ UNCHANGED threadVars

Next ==
    \/ \E t \in Timestamps, v \in Values : Add(t, v)
    \/ \E t \in Timestamps, v \in Values, m \in MaxOffsets : AddUniqueTimestamp(t, v, m)
    \/ \E t \in Keys : Remove(t)
    \/ Clear

Spec == Init /\ [][Next]_vars

\* ---- the heap store beside the dict and the SortedDict store ----

HeapHasRoom == HasRoom /\ heap_size(heap) < MaxSize

\* storage.add(t, v); rb_storage.add(t, v); heap_storage.add(t, v)
HeapAdd(t, v) ==
    /\ HeapHasRoom
    /\ LET b == base_add(storage, t, v)
           r == rbtree_add(rb_storage, t, v)
           h == heap_add(heap, t, v)
       IN  /\ storage' = b.store
           /\ rb_storage' = r.store
           /\ heap' = h.store
           /\ ret' = [base |-> [NoResult EXCEPT !.raised = b.raised],
                      tree |-> [NoResult EXCEPT !.raised = r.raised],
                      heap |-> [NoResult EXCEPT !.raised = h.raised]]
           /\ records' =
                [base |-> IF b.raised THEN records.base ELSE [records.base EXCEPT ![t] = v],
                 tree |-> IF r.raised THEN records.tree ELSE [records.tree EXCEPT ![t] = v],
                 heap |-> IF h.raised THEN records.heap ELSE [records.heap EXCEPT ![t] = v]]
    /\ last' = [NoCall EXCEPT !.op = "add", !.ts = t, !.value = v]
    /\ history' = HistoryAfterAdd(history, t)
    /\ dropped' = {}
    /\ UNCHANGED threadVars

\* storage.remove(t); rb_storage.remove(t); heap_storage.remove(t)
HeapRemove(t) ==
    /\ LET b == base_remove(storage, t)
           r == rbtree_remove(rb_storage, t)
           h == heap_remove(heap, t)
       IN  /\ storage' = b.store
           /\ rb_storage' = r.store
           /\ heap' = h.store
           /\ ret' = [base |-> [NoResult EXCEPT !.found = b.found],
                      tree |-> [NoResult EXCEPT !.found = r.found],
                      heap |-> [NoResult EXCEPT !.found = h.found]]
           /\ records' =
                [base |-> IF b.found THEN [records.base EXCEPT ![t] = None] ELSE records.base,
                 tree |-> IF r.found THEN [records.tree EXCEPT ![t] = None] ELSE records.tree,
                 heap |-> IF h.found THEN [records.heap EXCEPT ![t] = None] ELSE records.heap]
    /\ last' = [NoCall EXCEPT !.op = "remove", !.ts = t]
    /\ history' = HistoryAfterRemove(history)
    /\ dropped' = {}
    /\ UNCHANGED threadVars

\* storage.clear(); rb_storage.clear(); heap_storage.clear()
HeapClear ==
    /\ storage' = base_clear(storage)
    /\ rb_storage' = rbtree_clear(rb_storage)
    /\ heap' = heap_clear(heap)
    /\ ret' = [base |-> NoResult, tree |-> NoResult, heap |-> NoResult]
    /\ records' = [base |-> NoRecords, tree |-> NoRecords, heap |-> NoRecords]
    /\ last' = [NoCall EXCEPT !.op = "clear"]
    /\ history' = AnyHistory
    /\ dropped' = base_get_timestamps(storage)
    /\ UNCHANGED threadVars

NextHeap ==
    \/ \E t \in Timestamps, v \in Values : HeapAdd(t, v)
    \/ \E t \in Timestamps : HeapRemove(t)
    \/ HeapClear

SpecHeap == Init /\ [][NextHeap]_vars

\* ---- the three stores alone: what each holds, and the call made last ----

\* what the calls on the stores alone leave as it is
nonRangeVars == <<ret, records, history, dropped, threadVars>>

\* storage.add(t, v); rb_storage.add(t, v); heap_storage.add(t, v)
RangeAdd(t, v) ==
    /\ HeapHasRoom
    /\ storage' = base_add(storage, t, v).store
    /\ rb_storage' = rbtree_add(rb_storage, t, v).store
    /\ heap' = heap_add(heap, t, v).store
    /\ last' = [NoCall EXCEPT !.op = "add", !.ts = t, !.value = v]
    /\ UNCHANGED nonRangeVars

\* storage.remove(t); rb_storage.remove(t); heap_storage.remove(t)
RangeRemove(t) ==
    /\ storage' = base_remove(storage, t).store
    /\ rb_storage' = rbtree_remove(rb_storage, t).store
    /\ heap' = heap_remove(heap, t).store
    /\ last' = [NoCall EXCEPT !.op = "remove", !.ts = t]
    /\ UNCHANGED nonRangeVars

\* storage.clear(); rb_storage.clear(); heap_storage.clear()
RangeClear ==
    /\ storage' = base_clear(storage)
    /\ rb_storage' = rbtree_clear(rb_storage)
    /\ heap' = heap_clear(heap)
    /\ last' = [NoCall EXCEPT !.op = "clear"]
    /\ UNCHANGED nonRangeVars

NextRange ==
    \/ \E t \in Timestamps, v \in Values : RangeAdd(t, v)
    \/ \E t \in Timestamps : RangeRemove(t)
    \/ RangeClear

SpecRange == Init /\ [][NextRange]_vars

\* ---- core operations the wrappers delegate to ----

\* datetime.max
DatetimeMax == MaxTs + MaxOffset + 2

\* ---- local time: datetime.now(), datetime.timestamp(), datetime.fromtimestamp() ----
\* A POSIX time is an integer (microseconds).  A naive datetime is [t, fold]: t
\* the wall-clock reading as an integer, fold as in PEP 495; comparisons look at t
\* only.  The process's zone is [at, before, after]: the UTC offset is before up to
\* the POSIX time at and after from then on (a zone whose clocks never change has
\* before = after).

\* the zone of a process whose clocks never change
UTC == [at |-> 0, before |-> 0, after |-> 0]

Zones == {[at |-> a, before |-> b, after |-> c] : a \in Timestamps, b, c \in 0..MaxShift}

\* max_fold_seconds of datetime.py, longer than any change of the clocks
max_fold_seconds == MaxShift + 1

utcoffset(zone, u) == IF u < zone.at THEN zone.before ELSE zone.after

\* time.localtime(u), as a wall-clock reading
local(zone, u) == u + utcoffset(zone, u)

\* datetime.fromtimestamp(u): local time, fold set when the reading is the second
\* of its kind (probe1, trans and probe2 of datetime._fromtimestamp)
datetime_fromtimestamp(zone, u) ==
    LET result == local(zone, u)
        probe1 == local(zone, u - max_fold_seconds)
        trans == result - probe1 - max_fold_seconds
    IN  [t |-> result,
         fold |-> IF trans < 0 /\ local(zone, u + trans) = result THEN 1 ELSE 0]

\* datetime.timestamp() of a naive datetime (datetime._mktime)
datetime_timestamp(zone, dt) ==
    LET t == dt.t
        a == local(zone, t) - t
        u1 == t - a
        t1 == local(zone, u1)
        u2 == u1 + (IF dt.fold = 0 THEN 0 - max_fold_seconds ELSE max_fold_seconds)
        b == IF t1 = t THEN local(zone, u2) - u2 ELSE t1 - u1
        u3 == t - b
        t2 == local(zone, u3)
    IN  IF t1 = t /\ a = b THEN u1
        ELSE IF t2 = t THEN u3
        ELSE IF t1 = t THEN u1
        ELSE IF dt.fold = 0
             THEN (IF u1 > u3 THEN u1 ELSE u3)
             ELSE (IF u1 < u3 THEN u1 ELSE u3)

\* datetime.now() when time.time() reads clock
datetime_now(zone, clock) == datetime_fromtimestamp(zone, clock)

\* start_time of get_duration: now.fromtimestamp(now.timestamp() - duration)
duration_start_time(zone, now, duration) ==
    datetime_fromtimestamp(zone, datetime_timestamp(zone, now) - duration)

\* get_duration(duration) in a process of zone, when time.time() reads clock
base_get_duration(d, zone, clock, duration) ==
    LET now == datetime_now(zone, clock)
    IN  base_get_range(d, duration_start_time(zone, now, duration).t, now.t)

rbtree_get_duration(d, zone, clock, duration) ==
    LET now == datetime_now(zone, clock)
    IN  rbtree_get_range(d, duration_start_time(zone, now, duration).t, now.t)

heap_get_duration(h, zone, clock, duration) ==
    LET now == datetime_now(zone, clock)
    IN  heap_get_range(h, duration_start_time(zone, now, duration).t, now.t)

\* get_latest, from `latest_idx = ...` on
heap_latest_idx(h) == bisect_right(KeyList(h), DatetimeMax) - 1

\* get_earliest(), run without interruption
heap_get_earliest(h) == IF Len(h) > 0 THEN h[1] ELSE None

\* get_latest(), run without interruption
heap_get_latest(h) ==
    IF Len(h) = 0
    THEN None
    ELSE LET latest_idx == heap_latest_idx(h)
         IN  IF latest_idx >= 0 THEN h[latest_idx + 1] ELSE None

\* ---- concurrent/thread_safe_rbtree.py, concurrent/thread_safe_heap.py ----
\* One wrapper object is shared by the threads; wrapper says of which class.
\* The wrapped store of a ThreadSafeTimeBasedStorageRBTree is rb_storage, that
\* of a ThreadSafeTimeBasedStorageHeap is heap.

WrapperKinds == {"rbtree", "heap"}

InitWrapper ==
    /\ storage = EmptyDict
    /\ rb_storage = EmptySortedDict
    /\ heap = << >>
    /\ last = NoCall
    /\ ret = [base |-> NoResult, tree |-> NoResult, heap |-> NoResult]
    /\ records = [base |-> NoRecords, tree |-> NoRecords, heap |-> NoRecords]
    /\ history = NoHistory
    /\ dropped = {}
    /\ wrapper \in WrapperKinds
    /\ lock = Unlocked
    /\ waiters = {}
    /\ pc = [th \in Threads |-> Idle]
    /\ returned = NoReturn
    /\ done = [th \in Threads |-> 0]
    /\ consumer = "wait"
    /\ received_data = {}
    /\ event = FALSE
    /\ heap_storage = hs_init
    /\ tbs_heap = tbsh_init
    /\ called = NoEventCall
    /\ entered = << >>
    /\ sl_events = sl_init
    /\ sl_called = NoSortedCall

\* what the harness of the core stores keeps, untouched by the wrapper's threads
coreVars == <<storage, last, ret, records, history, dropped, eventVars, entered>>

\* what a wrapper method leaves alone
callerVars == <<coreVars, programVars>>

\* the methods a wrapper class overrides with a `with self._lock:` body
\* (`with self._condition:` in the heap wrapper's wait_for_data)
WriteOps(w) ==
    {"add", "remove", "clear"} \cup (IF w = "rbtree" THEN {"add_unique_timestamp"} ELSE {})

WaitOps(w) ==
    {"wait_for_data"} \cup (IF w = "rbtree" THEN {"notify_data_available"} ELSE {})

ReadOps ==
    {"get_range", "get_duration", "get_all", "get_timestamps", "get_value_at", "size", "is_empty"}

LockedOps(w) == WriteOps(w) \cup WaitOps(w) \cup ReadOps

\* the methods of TimeBasedStorageHeap the heap wrapper does not override
UnlockedOps == {"get_earliest", "get_latest"}

wrapped_size == IF wrapper = "rbtree" THEN rbtree_size(rb_storage) ELSE heap_size(heap)

wrapped_is_empty == IF wrapper = "rbtree" THEN rbtree_is_empty(rb_storage) ELSE heap_is_empty(heap)

\* the value the threads store under timestamp: f"value{i}" under now + i microseconds
ValueFor(timestamp) == timestamp

\* the wrapped store becomes s
SetWrapped(s) ==
    IF wrapper = "rbtree"
    THEN rb_storage' = s /\ heap' = heap
    ELSE heap' = s /\ rb_storage' = rb_storage

\* add(timestamp, value) on the wrapped store
wrapped_add(timestamp, value) ==
    IF wrapper = "rbtree"
    THEN rbtree_add(rb_storage, timestamp, value)
    ELSE heap_add(heap, timestamp, value)

\* the wrapped store has room left for a record
WrappedHasRoom == wrapped_size < MaxWrapped

\* th leaves `with self._lock:` and returns value from op
Leave(th, p, op, value) ==
    /\ pc' = [p EXCEPT ![th] = Idle]
    /\ lock' = RLockRelease(lock)
    /\ returned' = [NoReturn EXCEPT !.op = op, !.value = value]

\* a slip: acquire() and release() around the body in place of `with`, an
\* exception leaves the lock held
LeaveRaising_holds_lock(th, p, op, exception) ==
    /\ pc' = [p EXCEPT ![th] = Idle]
    /\ lock' = lock
    /\ returned' = [NoReturn EXCEPT !.op = op, !.raised = exception]

\* th leaves `with self._lock:` of op by an exception
LeaveRaising(th, p, op, exception) ==
    /\ pc' = [p EXCEPT ![th] = Idle]
    /\ lock' = RLockRelease(lock)
    /\ returned' = [NoReturn EXCEPT !.op = op, !.raised = exception]

\* th calls op and enters its `with self._lock:`
WrapperEnterBody(th, op) ==
    /\ pc[th].at = "idle"
    /\ op \in LockedOps(wrapper)
    /\ RLockAvailable(lock, th)
    /\ lock' = RLockAcquire(lock, th)
    /\ pc' = [pc EXCEPT ![th] = [Idle EXCEPT !.op = op, !.at = "locked"]]
    /\ returned' = NoReturn
    /\ UNCHANGED <<rb_storage, heap, waiters, wrapper>>

WrapperEnter(th, op) ==
    /\ op = "add_unique_timestamp" => WrappedHasRoom
    /\ op = "add" =>
          WrappedHasRoom \/ \E t \in Timestamps : wrapped_add(t, ValueFor(t)).raised
    /\ WrapperEnterBody(th, op)
    /\ UNCHANGED callerVars

\* add(timestamp, value): super().add(timestamp, value); self._condition.notify_all()
WrapperAddBody(th, timestamp, value) ==
    /\ pc[th].op = "add" /\ pc[th].at = "locked"
    /\ LET r == wrapped_add(timestamp, value)
       IN  IF r.raised
           THEN /\ LeaveRaising(th, pc, "add", "ValueError")
                /\ UNCHANGED <<rb_storage, heap, waiters>>
           ELSE /\ SetWrapped(r.store)
                /\ Leave(th, notify_all(pc, waiters), "add", None)
                /\ waiters' = {}
    /\ UNCHANGED wrapper

WrapperAdd(th, timestamp) ==
    /\ WrappedHasRoom \/ wrapped_add(timestamp, ValueFor(timestamp)).raised
    /\ WrapperAddBody(th, timestamp, ValueFor(timestamp))
    /\ UNCHANGED callerVars

\* add_unique_timestamp(timestamp, value, max_offset_microseconds) of the tree wrapper
\* with offset what random.randint(0, max_offset_microseconds) draws
WrapperAddUniqueTimestampBody(th, timestamp, value, offset) ==
    /\ pc[th].op = "add_unique_timestamp" /\ pc[th].at = "locked"
    /\ LET r == rbtree_add_unique_timestamp(rb_storage, timestamp, value, offset)
       IN  /\ SetWrapped(r.store)
           /\ Leave(th, notify_all(pc, waiters), "add_unique_timestamp", r.ts)
    /\ waiters' = {}
    /\ UNCHANGED wrapper

WrapperAddUniqueTimestamp(th, timestamp, max_offset) ==
    /\ \E offset \in randint(0, max_offset) :
         WrapperAddUniqueTimestampBody(th, timestamp, ValueFor(timestamp), offset)
    /\ UNCHANGED callerVars

\* a slip: remove notifies the waiting threads as add does
WrapperRemoveBody_notifies(th, timestamp) ==
    /\ pc[th].op = "remove" /\ pc[th].at = "locked"
    /\ LET r == IF wrapper = "rbtree"
                THEN rbtree_remove(rb_storage, timestamp)
                ELSE heap_remove(heap, timestamp)
       IN  /\ SetWrapped(r.store)
           /\ Leave(th, notify_all(pc, waiters), "remove", r.found)
    /\ waiters' = {}
    /\ UNCHANGED wrapper

\* remove(timestamp)
WrapperRemoveBody(th, timestamp) ==
    /\ pc[th].op = "remove" /\ pc[th].at = "locked"
    /\ LET r == IF wrapper = "rbtree"
                THEN rbtree_remove(rb_storage, timestamp)
                ELSE heap_remove(heap, timestamp)
       IN  /\ SetWrapped(r.store)
           /\ Leave(th, pc, "remove", r.found)
    /\ UNCHANGED <<waiters, wrapper>>

WrapperRemove(th, timestamp) ==
    /\ WrapperRemoveBody(th, timestamp)
    /\ UNCHANGED callerVars

\* clear()
WrapperClearBody(th) ==
    /\ pc[th].op = "clear" /\ pc[th].at = "locked"
    /\ SetWrapped(IF wrapper = "rbtree" THEN rbtree_clear(rb_storage) ELSE heap_clear(heap))
    /\ Leave(th, pc, "clear", None)
    /\ UNCHANGED <<waiters, wrapper>>

WrapperClear(th) ==
    /\ WrapperClearBody(th)
    /\ UNCHANGED callerVars

\* what a reading method returns; a and b are its arguments (for get_duration,
\* a is the duration and b what time.time() reads, in a process set to UTC)
WrapperReadResult(op, a, b) ==
    IF wrapper = "rbtree"
    THEN CASE op = "get_range" -> rbtree_get_range(rb_storage, a, b)
           [] op = "get_duration" -> rbtree_get_duration(rb_storage, UTC, b, a)
           [] op = "get_all" -> rbtree_get_all(rb_storage)
           [] op = "get_timestamps" -> rbtree_get_timestamps(rb_storage)
           [] op = "get_value_at" -> rbtree_get_value_at(rb_storage, a)
           [] op = "size" -> rbtree_size(rb_storage)
           [] op = "is_empty" -> rbtree_is_empty(rb_storage)
    ELSE CASE op = "get_range" -> heap_get_range(heap, a, b)
           [] op = "get_duration" -> heap_get_duration(heap, UTC, b, a)
           [] op = "get_all" -> heap_get_all(heap)
           [] op = "get_timestamps" -> heap_get_timestamps(heap)
           [] op = "get_value_at" -> heap_get_value_at(heap, a)
           [] op = "size" -> heap_size(heap)
           [] op = "is_empty" -> heap_is_empty(heap)

\* get_range, get_duration, get_all, get_timestamps, get_value_at, size, is_empty
WrapperReadBody(th, a, b) ==
    /\ pc[th].op \in ReadOps /\ pc[th].at = "locked"
    /\ Leave(th, pc, pc[th].op, WrapperReadResult(pc[th].op, a, b))
    /\ UNCHANGED <<rb_storage, heap, waiters, wrapper>>

WrapperRead(th, a, b) ==
    /\ WrapperReadBody(th, a, b)
    /\ UNCHANGED callerVars

\* a slip: the waiter blocks with the lock still held
WrapperWaitForDataBody_keeps_lock(th, timeout) ==
    /\ pc[th].op = "wait_for_data" /\ pc[th].at = "locked"
    /\ wrapper = "rbtree" => RLockAvailable(lock, th)
    /\ IF wrapper = "rbtree" /\ ~rbtree_is_empty(rb_storage)
       THEN /\ Leave(th, pc, "wait_for_data", TRUE)
            /\ waiters' = waiters
       ELSE /\ waiters' = waiters \cup {th}
            /\ lock' = lock
            /\ pc' = [pc EXCEPT ![th].at = "blocked", ![th].timeout = timeout]
            /\ returned' = NoReturn
    /\ UNCHANGED <<rb_storage, heap, wrapper>>

\* wait_for_data(timeout), up to the point where Condition.wait blocks.
\* The tree wrapper returns True at once when self.is_empty() is False (is_empty
\* takes the RLock a second time and gives it back); the heap wrapper waits
\* whatever the store holds.  Condition.wait enqueues the waiter and gives the
\* lock up whole (_release_save).
WrapperWaitForDataBody(th, timeout) ==
    /\ pc[th].op = "wait_for_data" /\ pc[th].at = "locked"
    /\ wrapper = "rbtree" => RLockAvailable(lock, th)
    /\ IF wrapper = "rbtree" /\ ~rbtree_is_empty(rb_storage)
       THEN /\ Leave(th, pc, "wait_for_data", TRUE)
            /\ waiters' = waiters
       ELSE /\ waiters' = waiters \cup {th}
            /\ lock' = Unlocked
            /\ pc' = [pc EXCEPT ![th].at = "blocked", ![th].timeout = timeout]
            /\ returned' = NoReturn
    /\ UNCHANGED <<rb_storage, heap, wrapper>>

WrapperWaitForData(th, timeout) ==
    /\ WrapperWaitForDataBody(th, timeout)
    /\ UNCHANGED callerVars

\* the timeout of a blocked wait_for_data runs out: waiter.acquire(True, timeout)
\* returns False
ConditionTimeout(th) ==
    /\ pc[th].at = "blocked"
    /\ pc[th].timeout = "finite"
    /\ pc' = [pc EXCEPT ![th].at = "timed_out"]
    /\ returned' = NoReturn
    /\ UNCHANGED <<rb_storage, heap, wrapper, lock, waiters, callerVars>>

\* the rest of Condition.wait and of wait_for_data: self._acquire_restore takes
\* the lock back, a waiter that was not notified leaves _waiters, gotit is
\* returned and the `with` gives the lock up
ConditionWaitReturnBody(th) ==
    /\ pc[th].at \in {"notified", "timed_out"}
    /\ lock = Unlocked
    /\ waiters' = waiters \ {th}
    /\ pc' = [pc EXCEPT ![th] = Idle]
    /\ lock' = Unlocked
    /\ returned' = [NoReturn EXCEPT !.op = "wait_for_data", !.value = gotit(pc[th])]
    /\ UNCHANGED <<rb_storage, heap, wrapper>>

ConditionWaitReturn(th) ==
    /\ ConditionWaitReturnBody(th)
    /\ UNCHANGED callerVars

\* notify_data_available() of the tree wrapper
WrapperNotifyDataAvailable(th) ==
    /\ pc[th].op = "notify_data_available" /\ pc[th].at = "locked"
    /\ Leave(th, notify_all(pc, waiters), "notify_data_available", None)
    /\ waiters' = {}
    /\ UNCHANGED <<rb_storage, heap, wrapper, callerVars>>

\* get_earliest() / get_latest() through the heap wrapper, which inherits them
\* from TimeBasedStorageHeap as they are: the test of self._heap, without the lock
HeapGetCheck(th, op) ==
    /\ wrapper = "heap"
    /\ op \in UnlockedOps
    /\ pc[th].at = "idle"
    /\ IF heap_is_empty(heap)
       THEN /\ pc' = pc
            /\ returned' = [NoReturn EXCEPT !.op = op]
       ELSE /\ pc' = [pc EXCEPT ![th] = [Idle EXCEPT !.op = op, !.at = "checked"]]
            /\ returned' = NoReturn
    /\ UNCHANGED <<rb_storage, heap, wrapper, lock, waiters, callerVars>>

\* get_earliest(): self._heap[0]
HeapGetEarliest(th) ==
    /\ pc[th].op = "get_earliest" /\ pc[th].at = "checked"
    /\ pc' = [pc EXCEPT ![th] = Idle]
    /\ returned' = IF Len(heap) > 0
                   THEN [NoReturn EXCEPT !.op = "get_earliest", !.value = heap[1]]
                   ELSE [NoReturn EXCEPT !.op = "get_earliest", !.raised = "IndexError"]
    /\ UNCHANGED <<rb_storage, heap, wrapper, lock, waiters, callerVars>>

\* get_latest(): latest_idx = bisect.bisect_right([ts for ts, _ in self._heap], datetime.max) - 1
HeapGetLatestIdx(th) ==
    /\ pc[th].op = "get_latest" /\ pc[th].at = "checked"
    /\ pc' = [pc EXCEPT ![th].at = "indexed", ![th].idx = heap_latest_idx(heap)]
    /\ returned' = NoReturn
    /\ UNCHANGED <<rb_storage, heap, wrapper, lock, waiters, callerVars>>

\* get_latest(): return self._heap[latest_idx] if latest_idx >= 0 else None
HeapGetLatest(th) ==
    /\ pc[th].op = "get_latest" /\ pc[th].at = "indexed"
    /\ pc' = [pc EXCEPT ![th] = Idle]
    /\ returned' = IF pc[th].idx < 0
                   THEN [NoReturn EXCEPT !.op = "get_latest"]
                   ELSE IF pc[th].idx < Len(heap)
                   THEN [NoReturn EXCEPT !.op = "get_latest", !.value = heap[pc[th].idx + 1]]
                   ELSE [NoReturn EXCEPT !.op = "get_latest", !.raised = "IndexError"]
    /\ UNCHANGED <<rb_storage, heap, wrapper, lock, waiters, callerVars>>

\* adding, removing, clearing, waiting and notifying
NextWait ==
    \/ \E th \in Threads, op \in WriteOps(wrapper) \cup WaitOps(wrapper) : WrapperEnter(th, op)
    \/ \E th \in Threads, t \in Timestamps : WrapperAdd(th, t)
    \/ \E th \in Threads, t \in Timestamps, m \in MaxOffsets :
          WrapperAddUniqueTimestamp(th, t, m)
    \/ \E th \in Threads, t \in Timestamps : WrapperRemove(th, t)
    \/ \E th \in Threads : WrapperClear(th)
    \/ \E th \in Threads, timeout \in Timeouts : WrapperWaitForData(th, timeout)
    \/ \E th \in Threads : ConditionTimeout(th)
    \/ \E th \in Threads : ConditionWaitReturn(th)
    \/ \E th \in Threads : WrapperNotifyDataAvailable(th)

SpecWait == InitWrapper /\ [][NextWait]_vars

\* every method of the two wrappers
NextWrapper ==
    \/ NextWait
    \/ \E th \in Threads, op \in ReadOps : WrapperEnter(th, op)
    \/ \E th \in Threads, a \in Timestamps, b \in Timestamps : WrapperRead(th, a, b)
    \/ \E th \in Threads, op \in UnlockedOps : HeapGetCheck(th, op)
    \/ \E th \in Threads : HeapGetEarliest(th)
    \/ \E th \in Threads : HeapGetLatestIdx(th)
    \/ \E th \in Threads : HeapGetLatest(th)

SpecWrapper == InitWrapper /\ [][NextWrapper]_vars

\* ---- every method of the two wrappers, called by the first NumCallers threads ----

\* the threads that call the wrapper
Callers == 1..NumCallers

NextCallers ==
    \/ \E th \in Callers, op \in LockedOps(wrapper) : WrapperEnter(th, op)
    \/ \E th \in Callers, t \in Timestamps : WrapperAdd(th, t)
    \/ \E th \in Callers, t \in Timestamps, m \in MaxOffsets :
          WrapperAddUniqueTimestamp(th, t, m)
    \/ \E th \in Callers, t \in Timestamps : WrapperRemove(th, t)
    \/ \E th \in Callers : WrapperClear(th)
    \/ \E th \in Callers, a \in Timestamps, b \in Timestamps : WrapperRead(th, a, b)
    \/ \E th \in Callers, timeout \in Timeouts : WrapperWaitForData(th, timeout)
    \/ \E th \in Callers : ConditionTimeout(th)
    \/ \E th \in Callers : ConditionWaitReturn(th)
    \/ \E th \in Callers : WrapperNotifyDataAvailable(th)
    \/ \E th \in Callers, op \in UnlockedOps : HeapGetCheck(th, op)
    \/ \E th \in Callers : HeapGetEarliest(th)
    \/ \E th \in Callers : HeapGetLatestIdx(th)
    \/ \E th \in Callers : HeapGetLatest(th)

SpecCallers == InitWrapper /\ [][NextCallers]_vars

\* ---- the calls C38 is about, under fair scheduling ----

\* the timestamps the calls are made with: enough to fill the store and to add
\* a stored timestamp again
CallTimestamps == 1..MaxWrapped

\* the methods called: those that take the lock, but for add_unique_timestamp,
\* which takes it and gives it up as add does
CalledOps(w) == LockedOps(w) \ {"add_unique_timestamp"}

\* th, inside its `with self._lock:`, runs the body of the method it called
CallBody(th) ==
    \/ \E t \in CallTimestamps : WrapperAdd(th, t)
    \/ \E t \in CallTimestamps : WrapperRemove(th, t)
    \/ WrapperClear(th)
    \/ \E a \in CallTimestamps, b \in CallTimestamps : WrapperRead(th, a, b)
    \/ \E timeout \in Timeouts : WrapperWaitForData(th, timeout)
    \/ WrapperNotifyDataAvailable(th)

NextCalls ==
    \/ \E th \in Callers, op \in CalledOps(wrapper) : WrapperEnter(th, op)
    \/ \E th \in Callers : CallBody(th)
    \/ \E th \in Callers : ConditionTimeout(th)
    \/ \E th \in Callers : ConditionWaitReturn(th)

SpecCalls == InitWrapper /\ [][NextCalls]_vars

\* fair scheduling: a thread inside a body runs it, a timeout that can run out
\* does, and a thread back from the wait that finds the lock free again and
\* again gets it
FairSpecCalls ==
    /\ SpecCalls
    /\ \A th \in Callers :
          /\ WF_vars(CallBody(th))
          /\ WF_vars(ConditionTimeout(th))
          /\ SF_vars(ConditionWaitReturn(th))

\* ---- tests/test_rbtree.py, tests/test_thread_safe.py: test_concurrent_add ----
\* NumThreads threads run add_values(start_idx, count) on one wrapper, each adding
\* count = AddsPerThread timestamps of its own.

\* a slip: start_idx = i * (count - 1), the threads' ranges overlap
ThreadTimestamp_overlapping(th, i) == (th - 1) * (AddsPerThread - 1) + i + 1

\* the timestamp of the i-th add (i from 0) of thread th: now + (start_idx + i)
\* microseconds with start_idx = (th - 1) * count
ThreadTimestamp(th, i) == (th - 1) * AddsPerThread + i + 1

\* done[th] of a thread that a ValueError ended
Raised == 0 - 1

\* th has left add_values
ThreadFinished(th) == done[th] \in {AddsPerThread, Raised}

\* th calls self.storage.add(timestamp, f"value{i}")
ThreadCallAdd(th) ==
    /\ ~ThreadFinished(th)
    /\ WrapperEnterBody(th, "add")
    /\ UNCHANGED callerVars

\* the add th called runs and returns, or raises and ends the thread
ThreadAdd(th) ==
    /\ ~ThreadFinished(th)
    /\ LET timestamp == ThreadTimestamp(th, done[th])
       IN  /\ WrapperAddBody(th, timestamp, ValueFor(timestamp))
           /\ done' = [done EXCEPT ![th] =
                          IF wrapped_add(timestamp, ValueFor(timestamp)).raised
                          THEN Raised ELSE @ + 1]
    /\ UNCHANGED <<coreVars, consumer, received_data, event>>

NextConcurrentAdd ==
    \/ \E th \in Threads : ThreadCallAdd(th)
    \/ \E th \in Threads : ThreadAdd(th)

SpecConcurrentAdd == InitWrapper /\ [][NextConcurrentAdd]_vars

\* ---- tests/test_thread_safe.py: test_wait_for_data on the heap wrapper ----
\* consumer position "wait":     at the head of the while loop
\* consumer position "get_all":  wait_for_data has returned True
\* consumer position "finished": out of the loop

Consumer == 1

Producer == 2

InitConsumer == InitWrapper /\ wrapper = "heap"

\* while not event.is_set() or len(received_data) < data_count:
\*     self.storage.wait_for_data(timeout=0.2)
ConsumerCallWait ==
    /\ consumer = "wait"
    /\ ~event \/ Cardinality(received_data) < DataCount
    /\ WrapperEnterBody(Consumer, "wait_for_data")
    /\ UNCHANGED callerVars

ConsumerWait == WrapperWaitForData(Consumer, "finite")

ConsumerTimeout == ConditionTimeout(Consumer)

\* if self.storage.wait_for_data(timeout=0.2):
ConsumerWaitReturn ==
    /\ consumer = "wait"
    /\ ConditionWaitReturnBody(Consumer)
    /\ consumer' = IF gotit(pc[Consumer]) THEN "get_all" ELSE "wait"
    /\ UNCHANGED <<coreVars, done, received_data, event>>

\* values = self.storage.get_all()
ConsumerCallGetAll ==
    /\ consumer = "get_all"
    /\ WrapperEnterBody(Consumer, "get_all")
    /\ UNCHANGED callerVars

\* received_data.update(values); if len(received_data) >= data_count: break
ConsumerGetAll ==
    /\ consumer = "get_all"
    /\ pc[Consumer].op = "get_all"
    /\ WrapperReadBody(Consumer, None, None)
    /\ LET values == WrapperReadResult("get_all", None, None)
           updated == received_data \cup {values[i] : i \in 1..Len(values)}
       IN  /\ received_data' = updated
           /\ consumer' = IF Cardinality(updated) >= DataCount THEN "finished" ELSE "wait"
    /\ UNCHANGED <<coreVars, done, event>>

\* for i in range(data_count): self.storage.add(datetime.now(), i)
ProducerCallAdd ==
    /\ done[Producer] < DataCount
    /\ WrapperEnterBody(Producer, "add")
    /\ UNCHANGED callerVars

\* the i-th add runs: the clock has moved on since the one before, and the value
\* i is kept as i + 1
ProducerAdd ==
    /\ done[Producer] < DataCount
    /\ WrapperAddBody(Producer, done[Producer] + 1, done[Producer] + 1)
    /\ done' = [done EXCEPT ![Producer] = @ + 1]
    /\ UNCHANGED <<coreVars, consumer, received_data, event>>

\* event.set(), after the last add
ProducerSetEvent ==
    /\ done[Producer] = DataCount
    /\ pc[Producer].at = "idle"
    /\ ~event
    /\ event' = TRUE
    /\ returned' = NoReturn
    /\ UNCHANGED <<rb_storage, heap, wrapper, lock, waiters, pc, coreVars, done, consumer, received_data>>

ConsumerNext ==
    \/ ConsumerCallWait
    \/ ConsumerWait
    \/ ConsumerTimeout
    \/ ConsumerWaitReturn
    \/ ConsumerCallGetAll
    \/ ConsumerGetAll

ProducerNext ==
    \/ ProducerCallAdd
    \/ ProducerAdd
    \/ ProducerSetEvent

NextConsumer == ConsumerNext \/ ProducerNext

SpecConsumer == InitConsumer /\ [][NextConsumer]_vars

\* Both threads are scheduled again and again, and a timeout that is running
\* runs out.
FairSpecConsumer ==
    /\ SpecConsumer
    /\ WF_vars(ConsumerNext)
    /\ WF_vars(ProducerNext)

\* ---- size() and is_empty(): a wrapper's threads, and a dict store beside them ----
\* Every add, add_unique_timestamp, remove and clear a thread makes through the
\* wrapper is made on a base.py store as well.

\* what the calls on the wrapper and on the dict store leave alone
sizeVars == <<last, ret, records, history, dropped, eventVars, programVars, entered>>

SizeOps(w) == WriteOps(w) \cup {"size", "is_empty"}

SizeHasRoom == wrapped_size < MaxSize /\ base_size(storage) < MaxSize

SizeEnter(th, op) ==
    /\ op \in SizeOps(wrapper)
    /\ WrapperEnterBody(th, op)
    /\ UNCHANGED <<storage, sizeVars>>

SizeAdd(th, timestamp) ==
    /\ SizeHasRoom
    /\ WrapperAddBody(th, timestamp, ValueFor(timestamp))
    /\ storage' = base_add(storage, timestamp, ValueFor(timestamp)).store
    /\ UNCHANGED sizeVars

SizeAddUniqueTimestamp(th, timestamp, max_offset) ==
    /\ SizeHasRoom
    /\ \E offset \in randint(0, max_offset) :
         /\ WrapperAddUniqueTimestampBody(th, timestamp, ValueFor(timestamp), offset)
         /\ storage' = base_add_unique_timestamp(storage, timestamp, ValueFor(timestamp), offset).store
    /\ UNCHANGED sizeVars

SizeRemove(th, timestamp) ==
    /\ WrapperRemoveBody(th, timestamp)
    /\ storage' = base_remove(storage, timestamp).store
    /\ UNCHANGED sizeVars

SizeClear(th) ==
    /\ WrapperClearBody(th)
    /\ storage' = base_clear(storage)
    /\ UNCHANGED sizeVars

\* size(), is_empty()
SizeRead(th) ==
    /\ pc[th].op \in {"size", "is_empty"}
    /\ WrapperReadBody(th, 0, 0)
    /\ UNCHANGED <<storage, sizeVars>>

NextSize ==
    \/ \E th \in Threads, op \in {"add", "add_unique_timestamp", "remove", "clear", "size", "is_empty"} :
          SizeEnter(th, op)
    \/ \E th \in Threads, timestamp \in Timestamps : SizeAdd(th, timestamp)
    \/ \E th \in Threads, timestamp \in Timestamps, max_offset \in MaxOffsets :
          SizeAddUniqueTimestamp(th, timestamp, max_offset)
    \/ \E th \in Threads, timestamp \in Keys : SizeRemove(th, timestamp)
    \/ \E th \in Threads : SizeClear(th)
    \/ \E th \in Threads : SizeRead(th)

SpecSize == InitWrapper /\ [][NextSize]_vars

\* ---- the order of add calls: a wrapper's threads add and read, nothing is
\* ---- removed or cleared

\* what the threads' calls leave alone
orderVars == <<storage, last, ret, records, history, dropped, eventVars, programVars>>

OrderReadOps == {"get_timestamps", "get_all", "size"}

OrderEnter(th, op) ==
    /\ op \in {"add"} \cup (WriteOps(wrapper) \ {"remove", "clear"}) \cup OrderReadOps
    /\ WrapperEnterBody(th, op)
    /\ UNCHANGED <<orderVars, entered>>

OrderAdd(th, timestamp) ==
    /\ wrapped_size < MaxSize
    /\ WrapperAddBody(th, timestamp, ValueFor(timestamp))
    /\ entered' = IF wrapped_add(timestamp, ValueFor(timestamp)).raised
                  THEN entered
                  ELSE Append(entered, <<timestamp, ValueFor(timestamp)>>)
    /\ UNCHANGED orderVars

OrderAddUniqueTimestamp(th, timestamp, max_offset) ==
    /\ wrapped_size < MaxSize
    /\ \E offset \in randint(0, max_offset) :
         WrapperAddUniqueTimestampBody(th, timestamp, ValueFor(timestamp), offset)
    /\ UNCHANGED <<orderVars, entered>>

\* get_timestamps(), get_all(), size()
OrderRead(th) ==
    /\ pc[th].op \in OrderReadOps
    /\ WrapperReadBody(th, 0, 0)
    /\ UNCHANGED <<orderVars, entered>>

NextOrder ==
    \/ \E th \in Threads, op \in {"add", "add_unique_timestamp"} \cup OrderReadOps :
          OrderEnter(th, op)
    \/ \E th \in Threads, timestamp \in Timestamps : OrderAdd(th, timestamp)
    \/ \E th \in Threads, timestamp \in Timestamps, max_offset \in MaxOffsets :
          OrderAddUniqueTimestamp(th, timestamp, max_offset)
    \/ \E th \in Threads : OrderRead(th)

SpecOrder == InitWrapper /\ [][NextOrder]_vars

\* ---- the lazily sorted event stores, driven in lockstep ----

\* the data of the event created at timestamp: "Event 1", "Event 2", ... of main()
EventDataAt(timestamp) == timestamp

\* the timestamps create_event and delete_event are called with on the lazily
\* sorted stores
EventTimestamps == 1..MaxEventTs

\* everything but the event stores
nonEventVars ==
    <<storage, rb_storage, heap, last, ret, records, history, dropped,
      wrapper, lock, waiters, pc, returned, programVars, entered, sl_called>>

EventsHaveRoom ==
    /\ Len(heap_storage.heap) < MaxEvents
    /\ Len(tbs_heap.events) < MaxEvents
    /\ Len(sl_events) < MaxEvents

\* create_event(timestamp, data)
CreateEvent(timestamp, data) ==
    /\ EventsHaveRoom
    /\ heap_storage' = hs_create_event(heap_storage, timestamp, data)
    /\ tbs_heap' = tbsh_create_event(tbs_heap, timestamp, data)
    /\ sl_events' = sl_create_event(sl_events, timestamp, data)
    /\ called' = [op |-> "create_event", raised |-> <<"no", "no">>, mutated |-> TRUE]
    /\ UNCHANGED nonEventVars

\* delete_event(evt)
DeleteEvent(evt) ==
    /\ LET l == hs_delete_event(heap_storage, evt)
           c == tbsh_delete_event(tbs_heap, evt)
       IN  /\ heap_storage' = l.store
           /\ tbs_heap' = c.store
           /\ called' = [op |-> "delete_event",
                         raised |-> <<l.raised, c.raised>>,
                         mutated |-> called.mutated \/ l.raised = "no" \/ c.raised = "no"]
    /\ sl_events' = sl_delete_event(sl_events, evt).store
    /\ UNCHANGED nonEventVars

\* get_events_in_range(start_time, end_time)
GetEventsInRange(start_time, end_time) ==
    /\ LET l == hs_get_events_in_range(heap_storage, start_time, end_time)
           c == tbsh_get_events_in_range(tbs_heap, start_time, end_time)
       IN  /\ heap_storage' = l.store
           /\ tbs_heap' = c.store
           /\ called' = [called EXCEPT !.op = "get_events_in_range",
                                       !.raised = <<l.raised, c.raised>>]
    /\ UNCHANGED <<sl_events, nonEventVars>>

\* get_latest_event()
GetLatestEvent ==
    /\ LET l == hs_get_latest_event(heap_storage)
           c == tbsh_get_latest_event(tbs_heap)
       IN  /\ heap_storage' = l.store
           /\ tbs_heap' = c.store
           /\ called' = [called EXCEPT !.op = "get_latest_event",
                                       !.raised = <<l.raised, c.raised>>]
    /\ UNCHANGED <<sl_events, nonEventVars>>

\* get_events_by_duration(duration)
GetEventsByDuration(duration) ==
    /\ LET l == hs_get_events_by_duration(heap_storage, duration)
           c == tbsh_get_events_by_duration(tbs_heap, duration)
       IN  /\ heap_storage' = l.store
           /\ tbs_heap' = c.store
           /\ called' = [called EXCEPT !.op = "get_events_by_duration",
                                       !.raised = <<l.raised, c.raised>>]
    /\ UNCHANGED <<sl_events, nonEventVars>>

\* get_earliest_event()
GetEarliestEvent ==
    /\ called' = [called EXCEPT !.op = "get_earliest_event", !.raised = <<"no", "no">>]
    /\ UNCHANGED <<heap_storage, tbs_heap, sl_events, nonEventVars>>

NextEvents ==
    \/ \E timestamp \in EventTimestamps : CreateEvent(timestamp, EventDataAt(timestamp))
    \/ \E timestamp \in EventTimestamps : DeleteEvent(Event(timestamp, EventDataAt(timestamp)))
    \/ \E start_time \in Timestamps, end_time \in Timestamps :
          GetEventsInRange(start_time, end_time)
    \/ GetLatestEvent
    \/ \E duration \in Durations : GetEventsByDuration(duration)
    \/ GetEarliestEvent

SpecEvents == Init /\ [][NextEvents]_vars

\* ---- the storage.py store alone, events of one timestamp with different data ----

\* the data an event is created with
EventData == 1..MaxVal

\* the events the store is called with
SortedEvents == {Event(timestamp, data) : timestamp \in EventTimestamps, data \in EventData}

\* everything but the storage.py store
nonSortedVars ==
    <<storage, rb_storage, heap, last, ret, records, history, dropped,
      wrapper, lock, waiters, pc, returned, programVars, entered,
      heap_storage, tbs_heap, called>>

\* create_event(timestamp, data)
SortedCreateEvent(timestamp, data) ==
    /\ Len(sl_events) < MaxEvents
    /\ sl_events' = sl_create_event(sl_events, timestamp, data)
    /\ sl_called' = [op |-> "create_event", evt |-> Event(timestamp, data), raised |-> "no"]
    /\ UNCHANGED nonSortedVars

\* add_event(evt)
SortedAddEvent(evt) ==
    /\ Len(sl_events) < MaxEvents
    /\ sl_events' = sl_add_event(sl_events, evt)
    /\ sl_called' = [op |-> "add_event", evt |-> evt, raised |-> "no"]
    /\ UNCHANGED nonSortedVars

\* delete_event(evt)
SortedDeleteEvent(evt) ==
    /\ LET r == sl_delete_event(sl_events, evt)
       IN  /\ sl_events' = r.store
           /\ sl_called' = [op |-> "delete_event", evt |-> evt, raised |-> r.raised]
    /\ UNCHANGED nonSortedVars

\* get_latest_event()
SortedGetLatestEvent ==
    /\ sl_called' = [op |-> "get_latest_event", evt |-> NoEvent, raised |-> "no"]
    /\ UNCHANGED <<sl_events, nonSortedVars>>

NextSorted ==
    \/ \E timestamp \in EventTimestamps, data \in EventData : SortedCreateEvent(timestamp, data)
    \/ \E evt \in SortedEvents : SortedAddEvent(evt)
    \/ \E evt \in SortedEvents : SortedDeleteEvent(evt)
    \/ SortedGetLatestEvent

SpecSorted == Init /\ [][NextSorted]_vars

\* ---- the two heap lists: the heap.py store and the time_based_storage_heap.py
\* ---- store take the same additions and removals

\* everything but the two heap lists
nonHeapsVars ==
    <<storage, rb_storage, heap_storage, sl_events, sl_called, last, ret, records, history, dropped,
      wrapper, lock, waiters, pc, returned, programVars, entered>>

\* add(timestamp, value) on the one, create_event(timestamp, data) on the other
HeapsAdd(timestamp, value) ==
    /\ Len(tbs_heap.events) < MaxEvents
    /\ heap_size(heap) < MaxEvents
    /\ LET h == heap_add(heap, timestamp, value)
       IN  /\ heap' = h.store
           /\ called' = [op |-> "create_event",
                         raised |-> <<IF h.raised THEN "ValueError" ELSE "no", "no">>,
                         mutated |-> TRUE]
    /\ tbs_heap' = tbsh_create_event(tbs_heap, timestamp, value)
    /\ UNCHANGED nonHeapsVars

\* remove(timestamp) on the one, delete_event(evt) on the other
HeapsRemove(evt) ==
    /\ LET c == tbsh_delete_event(tbs_heap, evt)
       IN  /\ tbs_heap' = c.store
           /\ called' = [op |-> "delete_event", raised |-> <<"no", c.raised>>, mutated |-> TRUE]
    /\ heap' = heap_remove(heap, evt[1]).store
    /\ UNCHANGED nonHeapsVars

\* clear() of the heap.py store; the other store has no such method
HeapsClear ==
    /\ heap' = heap_clear(heap)
    /\ called' = [op |-> "clear", raised |-> <<"no", "no">>, mutated |-> TRUE]
    /\ UNCHANGED <<tbs_heap, nonHeapsVars>>

NextHeaps ==
    \/ \E timestamp \in Timestamps : HeapsAdd(timestamp, EventDataAt(timestamp))
    \/ \E timestamp \in Timestamps : HeapsRemove(Event(timestamp, EventDataAt(timestamp)))
    \/ HeapsClear

SpecHeaps == Init /\ [][NextHeaps]_vars

\* ---- properties ----

\* the bag of the values rec holds for the timestamps in [start_time, end_time]
RecordsInRange(rec, start_time, end_time) ==
    ValueBag(rec, {t \in Bounds : start_time <= t /\ t <= end_time /\ rec[t] # None})

\* the values rec holds for the timestamps lo..hi, in ascending timestamp order
RECURSIVE RecordsAscending(_, _, _)
RecordsAscending(rec, lo, hi) ==
    IF lo > hi
    THEN << >>
    ELSE (IF rec[lo] # None THEN <<rec[lo]>> ELSE << >>) \o RecordsAscending(rec, lo + 1, hi)

\* C1: on the dict store and the SortedDict store, add with a timestamp that is
\* stored raises ValueError and leaves the store as it was.
C1_DuplicateAddRejected ==
    [][ last'.op = "add" =>
          /\ (DictContains(storage, last'.ts) =>
                 ret'.base.raised /\ storage' = storage)
          /\ (SortedDictContains(rb_storage, last'.ts) =>
                 ret'.tree.raised /\ rb_storage' = rb_storage) ]_vars

\* an add was refused on both stores while they held other records too
C1_Witness ==
    /\ last.op = "add"
    /\ ret.base.raised /\ ret.tree.raised
    /\ base_get_value_at(storage, last.ts) \notin {None, last.value}
    /\ base_size(storage) >= 2 /\ rbtree_size(rb_storage) >= 2

\* C2: the heap store never holds two entries with the same timestamp (add
\* refuses a timestamp stored anywhere in the heap).
C2_HeapTimestampsUnique ==
    \A i, j \in 1..Len(heap) : i # j => heap[i][1] # heap[j][1]

\* C3: on the dict store and the SortedDict store, get_value_at(t) is the value
\* inserted at t for every stored t, and None for every t never inserted or
\* removed.  Stated for every call sequence, sequences of add and remove among them.
C3_GetValueAtInserted ==
    \A t \in Bounds :
        /\ base_get_value_at(storage, t) = records.base[t]
        /\ rbtree_get_value_at(rb_storage, t) = records.tree[t]

\* after adds with distinct timestamps and a remove: a stored, a removed and a
\* never inserted timestamp
C3_Witness ==
    /\ history.kind = "adds_removes"
    /\ last.op = "remove" /\ ret.base.found /\ ret.tree.found
    /\ base_get_value_at(storage, last.ts) = None
    /\ rbtree_get_value_at(rb_storage, last.ts) = None
    /\ \E t \in Timestamps :
          /\ records.base[t] # None
          /\ base_get_value_at(storage, t) = records.base[t]
          /\ rbtree_get_value_at(rb_storage, t) = records.base[t]
    /\ \E t \in Timestamps : t \notin history.added /\ base_get_value_at(storage, t) = None

\* C4: on the heap store, after add calls with distinct timestamps in any order,
\* get_value_at(t) is the value inserted at t, and None only for a t not stored.
C4_HeapGetValueAtInserted ==
    history.kind = "adds" =>
        \A t \in Timestamps : heap_get_value_at(heap, t) = records.heap[t]

\* C5: on the dict store and the SortedDict store, get_range(start, end) with
\* start <= end returns exactly the values of the records with
\* start <= timestamp <= end.
C5_GetRangeExact ==
    \A s, e \in Bounds :
        s <= e =>
            /\ base_get_range(storage, s, e) = RecordsInRange(records.base, s, e)
            /\ ListBag(rbtree_get_range(rb_storage, s, e)) = RecordsInRange(records.tree, s, e)

\* a range with a record on each of its two bounds and a record outside it
C5_Witness ==
    \E s, e \in Keys :
        /\ s < e
        /\ DictContains(storage, s) /\ DictContains(storage, e)
        /\ SortedDictContains(rb_storage, s) /\ SortedDictContains(rb_storage, e)
        /\ \E t \in DOMAIN storage : t < s \/ t > e
        /\ Len(rbtree_get_range(rb_storage, s, e)) >= 2
        /\ Len(rbtree_get_range(rb_storage, s, e)) < rbtree_size(rb_storage)

\* C6: after the same add and remove calls with distinct timestamps, the heap
\* store and the dict store return the same set of values from
\* get_range(start, end), for every start <= end.
C6_HeapRangeAsDict ==
    history.kind \in {"adds", "adds_removes"} =>
        \A s, e \in Bounds :
            s <= e =>
                DOMAIN ListBag(heap_get_range(heap, s, e)) = DOMAIN base_get_range(storage, s, e)

\* C7: on the SortedDict store, get_range returns the matching values in
\* ascending order of their timestamps, whatever the insertion order.
C7_TreeRangeAscending ==
    \A s, e \in Bounds :
        s <= e => rbtree_get_range(rb_storage, s, e) = RecordsAscending(records.tree, s, e)

\* the record added last is not the latest one, and a range returns it with others
C7_Witness ==
    /\ last.op = "add" /\ ~ret.tree.raised
    /\ \E i \in 1..Len(rb_storage) : rb_storage[i][1] > last.ts
    /\ \E s, e \in Bounds :
          /\ s <= last.ts /\ last.ts < e
          /\ Len(rbtree_get_range(rb_storage, s, e)) >= 2
          /\ rbtree_get_range(rb_storage, s, e)[1] # rbtree_get_range(rb_storage, s, e)[2]

\* C8: size() is the number of adds that returned, plus the number of
\* add_unique_timestamp calls, minus the number of removes that returned True:
\* size() is 0 at the start and every call changes it by what it adds to that count.
C8_SizeCountsCalls ==
    [][ /\ last'.op = "add" =>
             /\ base_size(storage') = base_size(storage) + (IF ret'.base.raised THEN 0 ELSE 1)
             /\ rbtree_size(rb_storage') = rbtree_size(rb_storage) + (IF ret'.tree.raised THEN 0 ELSE 1)
        /\ last'.op = "add_unique_timestamp" =>
             /\ base_size(storage') = base_size(storage) + 1
             /\ rbtree_size(rb_storage') = rbtree_size(rb_storage) + 1
        /\ last'.op = "remove" =>
             /\ base_size(storage') = base_size(storage) - (IF ret'.base.found THEN 1 ELSE 0)
             /\ rbtree_size(rb_storage') = rbtree_size(rb_storage) - (IF ret'.tree.found THEN 1 ELSE 0) ]_vars

\* C9: add_unique_timestamp with a stored timestamp inserts under a key that was
\* not stored: it returns another timestamp, every stored record keeps its value,
\* and size() grows by one.
C9_AddUniqueInsertsFreshKey ==
    [][ last'.op = "add_unique_timestamp" =>
          /\ (DictContains(storage, last'.ts) =>
                 /\ ret'.base.ts # last'.ts
                 /\ ~DictContains(storage, ret'.base.ts)
                 /\ \A k \in DOMAIN storage :
                       base_get_value_at(storage', k) = base_get_value_at(storage, k)
                 /\ base_size(storage') = base_size(storage) + 1)
          /\ (SortedDictContains(rb_storage, last'.ts) =>
                 /\ ret'.tree.ts # last'.ts
                 /\ ~SortedDictContains(rb_storage, ret'.tree.ts)
                 /\ \A k \in Keys :
                       SortedDictContains(rb_storage, k) =>
                           rbtree_get_value_at(rb_storage', k) = rbtree_get_value_at(rb_storage, k)
                 /\ rbtree_size(rb_storage') = rbtree_size(rb_storage) + 1) ]_vars

\* C10: add_unique_timestamp(t, v, max_offset) with t stored returns t' with
\* t <= t' <= t + max_offset, and v is the value stored at t' afterwards.
C10_AddUniqueOffsetBound ==
    [][ last'.op = "add_unique_timestamp" =>
          /\ (DictContains(storage, last'.ts) =>
                 /\ last'.ts <= ret'.base.ts
                 /\ ret'.base.ts <= last'.ts + last'.max_offset
                 /\ base_get_value_at(storage', ret'.base.ts) = last'.value)
          /\ (SortedDictContains(rb_storage, last'.ts) =>
                 /\ last'.ts <= ret'.tree.ts
                 /\ ret'.tree.ts <= last'.ts + last'.max_offset
                 /\ rbtree_get_value_at(rb_storage', ret'.tree.ts) = last'.value) ]_vars

\* a collision moved the record by the whole of a non-zero max_offset
C10_Witness ==
    /\ last.op = "add_unique_timestamp"
    /\ last.max_offset > 0
    /\ ret.base.ts = last.ts + last.max_offset
    /\ ret.tree.ts = last.ts + last.max_offset
    /\ base_get_value_at(storage, last.ts) # None
    /\ base_get_value_at(storage, ret.base.ts) = last.value
    /\ rbtree_get_value_at(rb_storage, ret.tree.ts) = last.value

\* C11: add_unique_timestamp(t, v) with t not stored inserts v under t itself and
\* returns t, no offset applied: get_value_at(t) is v afterwards, size() grows by
\* one and every other timestamp keeps what get_value_at returned for it.
C11_AddUniqueFreeKeepsTimestamp ==
    [][ last'.op = "add_unique_timestamp" =>
          /\ (~DictContains(storage, last'.ts) =>
                 /\ ret'.base.ts = last'.ts
                 /\ base_get_value_at(storage', last'.ts) = last'.value
                 /\ base_size(storage') = base_size(storage) + 1
                 /\ \A k \in Bounds \ {last'.ts} :
                       base_get_value_at(storage', k) = base_get_value_at(storage, k))
          /\ (~SortedDictContains(rb_storage, last'.ts) =>
                 /\ ret'.tree.ts = last'.ts
                 /\ rbtree_get_value_at(rb_storage', last'.ts) = last'.value
                 /\ rbtree_size(rb_storage') = rbtree_size(rb_storage) + 1
                 /\ \A k \in Bounds \ {last'.ts} :
                       rbtree_get_value_at(rb_storage', k) = rbtree_get_value_at(rb_storage, k)) ]_vars

\* add_unique_timestamp with a free timestamp and a non-zero max_offset came
\* back with that timestamp, next to a record stored before the call
C11_Witness ==
    /\ last.op = "add_unique_timestamp"
    /\ last.max_offset > 0
    /\ ret.base.ts = last.ts /\ ret.tree.ts = last.ts
    /\ base_get_value_at(storage, last.ts) = last.value
    /\ rbtree_get_value_at(rb_storage, last.ts) = last.value
    /\ base_size(storage) >= 2 /\ rbtree_size(rb_storage) >= 2
    /\ \E k \in Keys : k > last.ts /\ DictContains(storage, k)

\* C12: on the dict store and the SortedDict store, remove(t) returns True
\* exactly when t is stored; it then deletes that record and no other
\* (get_value_at(t) is None, size() is one less, every other timestamp keeps its
\* value); when t is not stored it returns False and leaves the store as it was.
C12_RemoveExact ==
    [][ last'.op = "remove" =>
          /\ ret'.base.found = DictContains(storage, last'.ts)
          /\ ret'.tree.found = SortedDictContains(rb_storage, last'.ts)
          /\ (ret'.base.found =>
                 /\ base_get_value_at(storage', last'.ts) = None
                 /\ base_size(storage') = base_size(storage) - 1
                 /\ \A k \in Bounds \ {last'.ts} :
                       base_get_value_at(storage', k) = base_get_value_at(storage, k))
          /\ (~ret'.base.found => storage' = storage)
          /\ (ret'.tree.found =>
                 /\ rbtree_get_value_at(rb_storage', last'.ts) = None
                 /\ rbtree_size(rb_storage') = rbtree_size(rb_storage) - 1
                 /\ \A k \in Bounds \ {last'.ts} :
                       rbtree_get_value_at(rb_storage', k) = rbtree_get_value_at(rb_storage, k))
          /\ (~ret'.tree.found => rb_storage' = rb_storage) ]_vars

\* a remove returned True and left a record on each side of the deleted one
C12_Witness ==
    /\ last.op = "remove"
    /\ ret.base.found /\ ret.tree.found
    /\ base_get_value_at(storage, last.ts) = None
    /\ rbtree_get_value_at(rb_storage, last.ts) = None
    /\ \E lo, hi \in Keys :
          /\ lo < last.ts /\ last.ts < hi
          /\ DictContains(storage, lo) /\ DictContains(storage, hi)
          /\ SortedDictContains(rb_storage, lo) /\ SortedDictContains(rb_storage, hi)

\* C13: on the heap store, after add and remove calls with distinct timestamps,
\* remove(t) returns True for every stored t, wherever its entry sits in the
\* heap list, and the entry is gone afterwards; it returns False only for a t
\* that is not stored.
C13_HeapRemoveFindsStored ==
    [][ (last'.op = "remove" /\ history.kind \in {"adds", "adds_removes"}) =>
          /\ ret'.heap.found = (\E i \in 1..Len(heap) : heap[i][1] = last'.ts)
          /\ (ret'.heap.found =>
                 /\ \A i \in 1..Len(heap') : heap'[i][1] # last'.ts
                 /\ heap_size(heap') = heap_size(heap) - 1) ]_vars

\* C14: on the dict, the SortedDict and the heap store, clear() leaves the store
\* empty whatever it held: size() is 0, is_empty() is True, get_all() and
\* get_timestamps() are empty, and add with any timestamp, one stored before the
\* clear included, raises no duplicate error.
C14_ClearEmpties ==
    [][ last'.op = "clear" =>
          /\ base_size(storage') = 0 /\ base_is_empty(storage')
          /\ base_get_all(storage') = ValueBag(EmptyDict, {})
          /\ base_get_timestamps(storage') = {}
          /\ rbtree_size(rb_storage') = 0 /\ rbtree_is_empty(rb_storage')
          /\ rbtree_get_all(rb_storage') = << >>
          /\ rbtree_get_timestamps(rb_storage') = << >>
          /\ heap_size(heap') = 0 /\ heap_is_empty(heap')
          /\ heap_get_all(heap') = << >>
          /\ heap_get_timestamps(heap') = << >>
          /\ \A t \in Keys, v \in Values :
                /\ ~base_add(storage', t, v).raised
                /\ ~rbtree_add(rb_storage', t, v).raised
                /\ ~heap_add(heap', t, v).raised ]_vars

\* clear was called on stores that held two or more records, and they are empty
C14_Witness ==
    /\ last.op = "clear"
    /\ Cardinality(dropped) >= 2
    /\ base_is_empty(storage) /\ rbtree_is_empty(rb_storage) /\ heap_is_empty(heap)
    /\ \A t \in dropped : ~base_add(storage, t, 1).raised

\* the timestamps the threads of test_concurrent_add add between them
AllThreadTimestamps == {ThreadTimestamp(th, i) : th \in Threads, i \in 0..(AddsPerThread - 1)}

InsideStore(th) == pc[th].at \in {"locked", "checked", "indexed"}

\* C16: a thread inside add, add_unique_timestamp, get_range, get_duration,
\* get_all, get_timestamps, get_value_at, remove, size, is_empty or clear of a
\* wrapper holds the wrapper's lock all the while, and at no time are two threads
\* inside a method that reads or writes the wrapped store together.
C16_StoreAccessUnderLock ==
    /\ \A th \in Threads : pc[th].at = "locked" => lock.owner = th
    /\ \A th1, th2 \in Threads : th1 # th2 => ~(InsideStore(th1) /\ InsideStore(th2))

\* this step is add or add_unique_timestamp storing its record and returning
AddCompletes ==
    \E th \in Threads :
        /\ pc[th].op \in {"add", "add_unique_timestamp"}
        /\ pc[th].at = "locked"
        /\ pc'[th].at = "idle"
        /\ returned'.raised = "no"

\* this step is notify_data_available returning
NotifyCompletes ==
    \E th \in Threads :
        /\ pc[th].op = "notify_data_available"
        /\ pc[th].at = "locked"
        /\ pc'[th].at = "idle"

\* this step is th returning value from wait_for_data
WaitReturns(th, value) ==
    /\ pc[th].op = "wait_for_data"
    /\ pc'[th].at = "idle"
    /\ returned'.op = "wait_for_data"
    /\ returned'.value = value

\* C17: when add (or add_unique_timestamp of the tree wrapper) stores its record
\* and returns, every thread blocked in wait_for_data whose timeout has not run
\* out is woken, and a woken thread returns True from wait_for_data.
C17_AddWakesEveryWaiter ==
    [][ /\ AddCompletes =>
             \A th \in Threads : pc[th].at = "blocked" => pc'[th].at = "notified"
        /\ \A th \in Threads :
             pc[th].at = "notified" => (pc'[th].at = "notified" \/ WaitReturns(th, TRUE)) ]_vars

\* an add has just woken two threads at once, one of them waiting without timeout
C17_Witness ==
    /\ returned.op = "add" /\ returned.raised = "no"
    /\ \E th1, th2 \in Threads :
          /\ th1 # th2
          /\ pc[th1].at = "notified" /\ pc[th1].timeout = "finite"
          /\ pc[th2].at = "notified" /\ pc[th2].timeout = "None"

\* what C18 says of a step, given which steps count as another thread providing data:
\* wait_for_data called on an empty store blocks instead of returning True; a
\* thread blocked with a timeout on an empty store stays blocked, its timeout can
\* run out at any time, and nothing but that ends its wait; once timed out it
\* returns False as soon as the lock is free; the store stays empty.
WaitTimesOut(provides) ==
    \A th \in Threads :
        /\ (pc[th].op = "wait_for_data" /\ pc[th].at = "locked" /\ wrapped_is_empty) =>
               ~WaitReturns(th, TRUE)
        /\ (pc[th].at = "blocked" /\ pc[th].timeout = "finite" /\ wrapped_is_empty /\ ~provides) =>
               /\ pc'[th].at \in {"blocked", "timed_out"}
               /\ ENABLED ConditionTimeout(th)
               /\ wrapped_is_empty'
        /\ (pc[th].at = "timed_out" /\ ~provides) =>
               /\ pc'[th].at = "timed_out" \/ WaitReturns(th, FALSE)
               /\ lock = Unlocked => ENABLED ConditionWaitReturn(th)
               /\ wrapped_is_empty => wrapped_is_empty'

C19_WaitTrueMeansData ==
    [][ \A th \in Threads :
           (wrapper = "rbtree" /\ WaitReturns(th, TRUE)) => ~rbtree_is_empty(rb_storage') ]_vars

\* the values the producer of test_wait_for_data adds
ProducedValues == 1..DataCount

\* C20: through the heap wrapper, the consumer looping on wait_for_data(timeout)
\* and reading get_all() after each True return comes to hold every value the
\* producer added.
C20_ConsumerObservesAll ==
    <>(received_data = ProducedValues)

\* C21: on the tree wrapper, a thread in wait_for_data that finds the store
\* non-empty can always take its next step, whatever the timeout (the is_empty()
\* inside takes the lock the thread holds already), and that step can only be
\* the return of True: the thread neither enters _waiters nor blocks, and the
\* store is left as it is.
C21_WaitReturnsAtOnce ==
    \A th \in Threads :
        (/\ wrapper = "rbtree"
         /\ pc[th].op = "wait_for_data" /\ pc[th].at = "locked"
         /\ ~rbtree_is_empty(rb_storage)) =>
            /\ \A timeout \in Timeouts :
                  ENABLED (/\ WrapperWaitForData(th, timeout)
                           /\ WaitReturns(th, TRUE)
                           /\ th \notin waiters'
                           /\ rb_storage' = rb_storage)
            /\ ~ENABLED (NextWait /\ pc'[th] # pc[th] /\ ~WaitReturns(th, TRUE))

\* wait_for_data has just returned True on the non-empty tree wrapper, the lock is
\* free again, and a thread whose own wait timed out before the record came has
\* still to take the lock back
C21_Witness ==
    /\ wrapper = "rbtree"
    /\ returned.op = "wait_for_data" /\ returned.value = TRUE
    /\ ~rbtree_is_empty(rb_storage)
    /\ lock = Unlocked
    /\ \E th \in Threads : pc[th].at = "timed_out"

\* C22: when add through a wrapper raises the duplicate ValueError, the caller
\* gets that ValueError, the wrapped store is what it was, and the lock is given
\* up: every thread can take it, a thread waiting to return from wait_for_data
\* can do so, and the thread whose add failed is idle and can call again.
C22_DuplicateAddReleasesLock ==
    [][ /\ \A th \in Threads :
             (/\ pc[th].op = "add" /\ pc[th].at = "locked"
              /\ pc'[th].at = "idle"
              /\ returned'.raised # "no") =>
                 /\ returned'.op = "add" /\ returned'.raised = "ValueError"
                 /\ rb_storage' = rb_storage /\ heap' = heap
                 /\ lock' = Unlocked
                 /\ \A th2 \in Threads : RLockAvailable(lock', th2)
                 /\ pc'[th] = Idle
        /\ (returned.op = "add" /\ returned.raised = "ValueError") =>
             /\ \A th \in Threads :
                   pc[th].at = "idle" => ENABLED WrapperEnter(th, "remove")
             /\ \A th \in Threads :
                   pc[th].at \in {"notified", "timed_out"} => ENABLED ConditionWaitReturn(th) ]_vars

\* add has just raised ValueError on a wrapper that holds the record it was
\* given, while another thread waits to return from wait_for_data
C22_Witness ==
    /\ returned.op = "add" /\ returned.raised = "ValueError"
    /\ ~wrapped_is_empty
    /\ lock = Unlocked
    /\ \E th \in Threads : pc[th].at = "notified"
    /\ \E th \in Threads : pc[th].at = "idle"

\* the bag sub is contained in the bag super
BagWithin(sub, super) ==
    \A v \in DOMAIN sub : v \in DOMAIN super /\ sub[v] <= super[v]

\* the values of the entries of the heap list stamped within [start_time, end_time]
HeapValuesInRange(h, start_time, end_time) ==
    ListBag(ValueList(SelectSeq(h, LAMBDA e : start_time <= e[1] /\ e[1] <= end_time)))

\* C24: on the dict, the SortedDict and the heap store, get_duration(seconds)
\* returns what get_range(now - seconds, now) returns on the same store, now being
\* the reading of the clock at the call, whatever the zone of the process; no
\* value of a record stamped after now or before now - seconds is returned.
C24_DurationIsRangeBeforeNow ==
    \A zone \in Zones, clock \in Timestamps, seconds \in Durations :
        LET now == datetime_now(zone, clock).t
        IN  /\ base_get_duration(storage, zone, clock, seconds)
                  = base_get_range(storage, now - seconds, now)
            /\ rbtree_get_duration(rb_storage, zone, clock, seconds)
                  = rbtree_get_range(rb_storage, now - seconds, now)
            /\ heap_get_duration(heap, zone, clock, seconds)
                  = heap_get_range(heap, now - seconds, now)
            /\ BagWithin(ListBag(heap_get_duration(heap, zone, clock, seconds)),
                         HeapValuesInRange(heap, now - seconds, now))

\* C27: on the heap store, get_latest() returns None when the store is empty and
\* otherwise a stored record whose timestamp no stored record exceeds, after any
\* add and remove calls.
C27_HeapLatestIsMaximum ==
    /\ heap_is_empty(heap) => heap_get_latest(heap) = None
    /\ ~heap_is_empty(heap) =>
          \E i \in 1..Len(heap) :
              /\ heap_get_latest(heap) = heap[i]
              /\ \A j \in 1..Len(heap) : heap[j][1] <= heap[i][1]

\* C28: on the heap store, get_earliest() returns None when the store is empty and
\* otherwise a stored record whose timestamp is the least stored, after any add,
\* remove and clear calls.
C28_HeapEarliestIsMinimum ==
    /\ heap_is_empty(heap) => heap_get_earliest(heap) = None
    /\ ~heap_is_empty(heap) =>
          \E i \in 1..Len(heap) :
              /\ heap_get_earliest(heap) = heap[i]
              /\ \A j \in 1..Len(heap) : heap[i][1] <= heap[j][1]

\* remove has just taken the earliest record out of the heap list and two
\* records are left: get_earliest() is the earlier of them
C28_Witness ==
    /\ last.op = "remove" /\ ret.heap.found
    /\ Len(heap) >= 2
    /\ last.ts < heap_get_earliest(heap)[1]
    /\ heap_get_earliest(heap)[1] < heap[2][1]

\* the events of the list l stamped within [start_time, end_time], in ascending
\* order of their timestamps
EventsInRange(l, start_time, end_time) ==
    SelectSeq(sorted_by_timestamp(l), LAMBDA e : start_time <= e[1] /\ e[1] <= end_time)

\* C25: on the time_based_storage_heap.py store, get_events_in_range(start, end)
\* with start <= end raises nothing in any reachable state, the state of a store
\* just created included, and returns the empty list when no stored event is
\* stamped within [start, end].
C25_RangeQueryNeverRaises ==
    \A start_time, end_time \in Bounds :
        start_time <= end_time =>
            LET r == tbsh_get_events_in_range(tbs_heap, start_time, end_time)
            IN  /\ r.raised = "no"
                /\ EventsInRange(tbs_heap.events, start_time, end_time) = << >> => r.value = << >>

\* the calls that consult the sorted projection
QueryOps == {"get_events_in_range", "get_latest_event", "get_events_by_duration"}

\* the sorted projection of each store is the sorted list of the events it holds
ProjectionCurrent(hs, tbsh) ==
    /\ hs.sorted /\ hs.events = sorted_by_timestamp(hs.heap)
    /\ tbsh.cache_valid /\ tbsh.sorted_cache = <<sorted_by_timestamp(tbsh.events)>>

\* what each query returns is computed from the events the store holds
QueriesAnswerFromHeld(hs, tbsh) ==
    /\ \A start_time, end_time \in Bounds :
          start_time <= end_time =>
              /\ hs_get_events_in_range(hs, start_time, end_time).value
                    = EventsInRange(hs.heap, start_time, end_time)
              /\ tbsh_get_events_in_range(tbsh, start_time, end_time).value
                    = EventsInRange(tbsh.events, start_time, end_time)
    /\ \A duration \in Durations :
          /\ hs_get_events_by_duration(hs, duration).raised = "no"
          /\ tbsh_get_events_by_duration(tbsh, duration).raised = "no"
          /\ \A latest \in 1..Len(hs.heap) :
                (\A i \in 1..Len(hs.heap) : hs.heap[i][1] <= hs.heap[latest][1]) =>
                    /\ hs_get_events_by_duration(hs, duration).value
                          = EventsInRange(hs.heap, hs.heap[latest][1] - duration, hs.heap[latest][1])
                    /\ tbsh_get_events_by_duration(tbsh, duration).value
                          = EventsInRange(tbsh.events, hs.heap[latest][1] - duration, hs.heap[latest][1])
                    /\ hs_get_latest_event(hs).value[1] = hs.heap[latest][1]
                    /\ tbsh_get_latest_event(tbsh).value[1] = hs.heap[latest][1]
                    /\ ListContains(hs.heap, hs_get_latest_event(hs).value)
                    /\ ListContains(tbsh.events, tbsh_get_latest_event(tbsh).value)
    /\ Len(hs.heap) = 0 => hs_get_latest_event(hs).value = None
    /\ Len(tbsh.events) = 0 => tbsh_get_latest_event(tbsh).value = None
    /\ hs_get_latest_event(hs).raised = "no"
    /\ tbsh_get_latest_event(tbsh).raised = "no"

\* C29: on the heap_storage.py and the time_based_storage_heap.py store, every
\* create_event and delete_event that succeeds marks the sorted projection stale;
\* a range, latest or duration query made while it is stale rebuilds it from the
\* events held before it searches (a latest or duration query that finds no event
\* held answers without searching); so once some create_event or delete_event has
\* succeeded every query answers from exactly the events held.
C29_QueriesSeeCurrentEvents ==
    [][ /\ (called'.op \in {"create_event", "delete_event"} /\ called'.raised = <<"no", "no">>) =>
             ~heap_storage'.sorted /\ ~tbs_heap'.cache_valid
        /\ (called'.op \in QueryOps /\ called'.raised = <<"no", "no">>) =>
             /\ heap_storage'.heap = heap_storage.heap
             /\ tbs_heap'.events = tbs_heap.events
             /\ \/ ProjectionCurrent(heap_storage', tbs_heap')
                \/ /\ called'.op # "get_events_in_range"
                   /\ Len(tbs_heap.events) = 0
                   /\ heap_storage'.sorted => heap_storage'.events = << >>
      ]_vars
    /\ [](called.mutated => QueriesAnswerFromHeld(heap_storage, tbs_heap))

\* a range query has just rebuilt both projections after a create_event and a
\* delete_event had changed the events held since they were last built
C29_Witness ==
    /\ called.op = "get_events_in_range" /\ called.mutated
    /\ ProjectionCurrent(heap_storage, tbs_heap)
    /\ Len(heap_storage.heap) = 2
    /\ heap_storage.heap[1][1] > heap_storage.heap[2][1]
    /\ tbs_heap.events[1][1] < tbs_heap.events[2][1]

\* the list of timestamps keys is a binary min-heap
IsMinHeap(keys) ==
    \A i \in 0..(Len(keys) - 1) :
        /\ 2 * i + 1 < Len(keys) => keys[i + 1] <= keys[2 * i + 2]
        /\ 2 * i + 2 < Len(keys) => keys[i + 1] <= keys[2 * i + 3]

\* C30: the list of the heap.py store and the events list of the
\* time_based_storage_heap.py store are binary min-heaps on timestamps in every
\* reachable state, after any add / create_event, remove / delete_event and clear.
C30_HeapProperty ==
    /\ IsMinHeap(KeyList(heap))
    /\ IsMinHeap(KeyList(tbs_heap.events))

\* an event has just been deleted from both lists, which had held three and
\* now hold two, the earlier one first
C30_Witness ==
    /\ called.op = "delete_event" /\ called.raised = <<"no", "no">>
    /\ Len(tbs_heap.events) = 2 /\ Len(heap) = 2
    /\ tbs_heap.events[1][1] < tbs_heap.events[2][1]
    /\ heap[1][1] < heap[2][1]

\* C26: is_empty() is True exactly when size() is 0, on the dict, the SortedDict
\* and the heap store and through both wrappers, in every reachable state; what a
\* thread's is_empty() or size() call returns is the answer for the state it
\* returns in.
C26_EmptyIffSizeZero ==
    /\ base_is_empty(storage) <=> base_size(storage) = 0
    /\ rbtree_is_empty(rb_storage) <=> rbtree_size(rb_storage) = 0
    /\ heap_is_empty(heap) <=> heap_size(heap) = 0
    /\ WrapperReadResult("is_empty", 0, 0) <=> WrapperReadResult("size", 0, 0) = 0
    /\ returned.op = "is_empty" => (returned.value <=> WrapperReadResult("size", 0, 0) = 0)
    /\ returned.op = "size" => (WrapperReadResult("is_empty", 0, 0) <=> returned.value = 0)

\* is_empty() has just returned False to a thread of a wrapper whose store, and
\* the dict store beside it, hold two records
C26_Witness ==
    /\ returned.op = "is_empty" /\ returned.value = FALSE
    /\ wrapped_size = 2
    /\ base_size(storage) = 2

\* C23: of two add calls made through one wrapper, A's `with` body before B's,
\* in a run without remove or clear, no state shows through get_timestamps,
\* get_all or size B's record and not A's: where B's timestamp is listed so is
\* A's, where B's value is listed so is A's, and where B's record is stored size
\* counts A's as well.
C23_AddsSeenInOrder ==
    \A a, b \in 1..Len(entered) :
        a < b =>
            /\ ListContains(WrapperReadResult("get_timestamps", 0, 0), entered[b][1])
                  => ListContains(WrapperReadResult("get_timestamps", 0, 0), entered[a][1])
            /\ ListContains(WrapperReadResult("get_all", 0, 0), entered[b][2])
                  => ListContains(WrapperReadResult("get_all", 0, 0), entered[a][2])
            /\ ListContains(WrapperReadResult("get_timestamps", 0, 0), entered[b][1])
                  => WrapperReadResult("size", 0, 0) >= b

\* C31: on the heap_storage.py store, whose delete_event does not heapify,
\* get_earliest_event() returns a stored event no stored event is earlier than,
\* after any sequence of create_event and delete_event, and None when no event
\* is stored.
C31_EarliestDespiteNoHeapify ==
    LET earliest == hs_get_earliest_event(heap_storage)
    IN  IF Len(heap_storage.heap) = 0
        THEN earliest = None
        ELSE /\ ListContains(heap_storage.heap, earliest)
             /\ \A i \in 1..Len(heap_storage.heap) : earliest[1] <= heap_storage.heap[i][1]

\* get_earliest_event() is called on a list that a delete_event has left with a
\* later event in front of an earlier one
C31_Witness ==
    /\ called.op = "get_earliest_event"
    /\ Len(heap_storage.heap) = 2
    /\ heap_storage.heap[1][1] > heap_storage.heap[2][1]
    /\ hs_get_earliest_event(heap_storage) = heap_storage.heap[2]

\* the largest timestamp of the events of the non-empty list l
MaxStored(l) == CHOOSE t \in {l[i][1] : i \in 1..Len(l)} : \A i \in 1..Len(l) : l[i][1] <= t

\* the events of the list l stamped at cutoff_time or later, in ascending order
\* of their timestamps
EventsSince(l, cutoff_time) ==
    SelectSeq(sorted_by_timestamp(l), LAMBDA e : e[1] >= cutoff_time)

\* C32: on the storage.py, the heap_storage.py and the
\* time_based_storage_heap.py store, get_events_by_duration(d) raises nothing and
\* returns the stored events stamped at (the largest stored timestamp - d) or
\* later, in ascending order of their timestamps, and the empty list when no
\* event is stored.
C32_DurationFromLatestStored ==
    \A duration \in Durations :
        LET l == hs_get_events_by_duration(heap_storage, duration)
            c == tbsh_get_events_by_duration(tbs_heap, duration)
            e == sl_get_events_by_duration(sl_events, duration)
        IN  /\ l.raised = "no" /\ c.raised = "no"
            /\ l.value = IF Len(heap_storage.heap) = 0 THEN << >>
                         ELSE EventsSince(heap_storage.heap,
                                          MaxStored(heap_storage.heap) - duration)
            /\ c.value = IF Len(tbs_heap.events) = 0 THEN << >>
                         ELSE EventsSince(tbs_heap.events,
                                          MaxStored(tbs_heap.events) - duration)
            /\ e = IF Len(sl_events) = 0 THEN << >>
                   ELSE EventsSince(sl_events, MaxStored(sl_events) - duration)

\* get_events_by_duration has been called on stores that hold three events of
\* two timestamps: a duration of 0 selects the later ones only, a duration of 1
\* selects them all
C32_Witness ==
    /\ called.op = "get_events_by_duration"
    /\ Len(sl_events) = 3 /\ Len(heap_storage.heap) = 3 /\ Len(tbs_heap.events) = 3
    /\ MaxStored(sl_events) = 2
    /\ Len(sl_get_events_by_duration(sl_events, 0)) \in 1..2
    /\ Len(hs_get_events_by_duration(heap_storage, 0).value) \in 1..2
    /\ Len(tbsh_get_events_by_duration(tbs_heap, 0).value) \in 1..2
    /\ Len(sl_get_events_by_duration(sl_events, 1)) = 3

\* C35: on the storage.py, the heap_storage.py and the
\* time_based_storage_heap.py store, get_events_in_range(start_time, end_time)
\* with start_time > end_time raises ValueError and returns nothing, and the
\* stored events and the sorted projection with its flag are as they were.
C35_ReversedRangeRaises ==
    \A start_time, end_time \in Bounds :
        start_time > end_time =>
            LET l == hs_get_events_in_range(heap_storage, start_time, end_time)
                c == tbsh_get_events_in_range(tbs_heap, start_time, end_time)
                e == sl_get_events_in_range(sl_events, start_time, end_time)
            IN  /\ l.raised = "ValueError" /\ l.store = heap_storage
                /\ c.raised = "ValueError" /\ c.store = tbs_heap
                /\ e.raised = "ValueError" /\ e.store = sl_events

\* get_events_in_range has raised ValueError on stores that hold events of
\* different timestamps, with the sorted projections stale
C35_Witness ==
    /\ called.op = "get_events_in_range"
    /\ called.raised = <<"ValueError", "ValueError">>
    /\ Len(sl_events) >= 2
    /\ ~heap_storage.sorted /\ ~tbs_heap.cache_valid
    /\ sl_events[1][1] < sl_events[Len(sl_events)][1]

\* the events of the list l, each with the number of times it is in l
EventBag(l) == [e \in {l[i] : i \in 1..Len(l)} |-> Cardinality({i \in 1..Len(l) : l[i] = e})]

\* the list l with one event equal to evt taken out of it
WithoutOne(l, evt) ==
    [e \in {x \in DOMAIN EventBag(l) : x # evt \/ EventBag(l)[x] > 1} |->
        IF e = evt THEN EventBag(l)[e] - 1 ELSE EventBag(l)[e]]

\* C33: on the storage.py store, delete_event(evt) removes one stored event
\* equal to evt (same timestamp, same data) whenever one is stored, also when
\* several stored events carry that timestamp; it raises ValueError only when
\* no stored event equals evt, and the list is then as it was.
C33_DeleteFindsEqualEvent ==
    /\ sl_called.op = "delete_event" /\ sl_called.raised = "ValueError"
          => ~ListContains(sl_events, sl_called.evt)
    /\ \A evt \in SortedEvents :
          LET r == sl_delete_event(sl_events, evt)
          IN  IF ListContains(sl_events, evt)
              THEN r.raised = "no" /\ EventBag(r.store) = WithoutOne(sl_events, evt)
              ELSE r.raised = "ValueError" /\ r.store = sl_events

\* the list l is in non-decreasing order of the timestamps
SortedByTimestamp(l) == \A i \in 1..(Len(l) - 1) : l[i][1] <= l[i + 1][1]

\* C34: on the storage.py store, self.events is in non-decreasing order of the
\* timestamps in every state reached by create_event, add_event and
\* delete_event calls with timestamps in any order, and get_latest_event()
\* returns a stored event of the largest stored timestamp (None when no event
\* is stored).
C34_EventsStaySorted ==
    /\ SortedByTimestamp(sl_events)
    /\ IF Len(sl_events) = 0
       THEN sl_get_latest_event(sl_events) = None
       ELSE /\ ListContains(sl_events, sl_get_latest_event(sl_events))
            /\ sl_get_latest_event(sl_events)[1] = MaxStored(sl_events)

\* an event has just been put in front of two events of later timestamps, the
\* store holding events of two timestamps
C34_Witness ==
    /\ sl_called.op \in {"create_event", "add_event"}
    /\ Len(sl_events) = 3
    /\ sl_called.evt = sl_events[1]
    /\ sl_events[1][1] < sl_events[2][1]
    /\ sl_get_latest_event(sl_events)[1] = 2

\* the bounds get_range is called with on stores whose records are stamped
\* 1..MaxTs: every stored timestamp, one before them all and one after them all
RangeBounds == 0..(MaxTs + 1)

\* C36: on the dict store, the SortedDict store and the heap list,
\* get_range(start, end) with start > end returns no value in any reachable
\* state; on the heap list the two binary searches run over a list that is in
\* heap order, not sorted.
C36_ReversedRangeIsEmpty ==
    \A start_time \in RangeBounds :
        \A end_time \in {t \in RangeBounds : start_time > t} :
            /\ DOMAIN base_get_range(storage, start_time, end_time) = {}
            /\ rbtree_get_range(rb_storage, start_time, end_time) = << >>
            /\ heap_get_range(heap, start_time, end_time) = << >>

\* the three stores hold records, the heap list is not sorted, and the records
\* of the dict store all lie between the reversed bounds 3 and 1
C36_Witness ==
    /\ Len(heap) = 3 /\ heap[2][1] > heap[3][1]
    /\ base_size(storage) = 3 /\ rbtree_size(rb_storage) = 3
    /\ base_get_range(storage, 3, 1) # base_get_range(storage, 1, 3)
    /\ Len(rbtree_get_range(rb_storage, 1, 3)) = 3
    /\ Len(heap_get_range_orders_bounds(heap, 3, 1)) > 0

\* C37: a thread blocked in wait_for_data is woken only by a step in which add
\* or add_unique_timestamp stores its record and returns, or in which
\* notify_data_available of the tree wrapper returns: an add that raises
\* ValueError, remove, clear and the reading methods leave every blocked thread
\* blocked, and a wait that has blocked returns True only after such a wake-up.
C37_OnlyAddsWake ==
    [][ \A th \in Threads :
           /\ (pc[th].at = "blocked" /\ pc'[th].at # "blocked") =>
                  \/ pc'[th].at = "notified"
                        /\ (AddCompletes \/ (wrapper = "rbtree" /\ NotifyCompletes))
                  \/ pc'[th].at = "timed_out" /\ pc[th].timeout = "finite"
           /\ pc[th].at = "timed_out" => pc'[th].at \in {"timed_out", "idle"}
           /\ (pc[th].at \in {"blocked", "timed_out"}) => ~WaitReturns(th, TRUE) ]_vars

\* a thread is still blocked in wait_for_data when a remove by another thread
\* has just returned True
C37_Witness ==
    /\ returned.op = "remove" /\ returned.value = TRUE
    /\ \E th \in Threads : pc[th].at = "blocked"

\* the methods that wait for nothing but the lock
NonWaitingOps == (WriteOps(wrapper) \cup ReadOps \cup {"notify_data_available"})

\* a thread inside Condition.wait, from the point where it has given the lock up
InsideWait(th) == pc[th].at \in {"blocked", "notified", "timed_out"}

\* C38: a thread inside the wait of wait_for_data does not hold the lock, in the
\* tree wrapper after its nested is_empty() as well.  Under fair scheduling the
\* lock is free again and again, so that a call waiting for it gets it; every
\* add, remove, clear, notify_data_available and reading call that has the lock
\* returns, while other threads wait; and a waiting thread that was woken or
\* whose timeout ran out takes the lock back and returns.
C38_CallsComplete ==
    /\ [](\A th \in Threads : InsideWait(th) => lock.owner # th)
    /\ []<>(lock = Unlocked)
    /\ \A th \in Callers :
          /\ (pc[th].at = "locked" /\ pc[th].op \in NonWaitingOps) ~> (pc[th].at = "idle")
          /\ (pc[th].at \in {"notified", "timed_out"}) ~> (pc[th].at = "idle")

\* a thread is blocked in wait_for_data without timeout on the tree wrapper, and
\* another thread's remove, issued meanwhile, has returned
C38_Witness ==
    /\ wrapper = "rbtree"
    /\ returned.op = "remove"
    /\ \E th \in Callers : pc[th].at = "blocked" /\ pc[th].timeout = "None"
    /\ lock = Unlocked

====
